---- MODULE Spec2Model ----
(***************************************************************************)
(* A leaf Tween of Create2D/Tween: the position engine of AbstractTween    *)
(* (setPosition, calculatePosition, advance), the step chain and action    *)
(* list a Tween builds (to, wait, call), the property update and the       *)
(* action execution over the traversed range, and the tween's membership   *)
(* of the tick list (Spec); actions whose callbacks call setPosition on    *)
(* their own tween (CallbackSpec); a Timeline and its child tweens         *)
(* (TimelineSpec); chains of to and wait steps and their interpolation     *)
(* (ChainSpec); Tween.tick over the tick list of several tweens whose      *)
(* actions pause and unpause tweens (TickSpec); a tween built with to,     *)
(* call and pause, positioned, paused, unpaused and cloned (PlayerSpec); a *)
(* tween with labels driven by gotoAndPlay and gotoAndStop (LabelSpec);    *)
(* a Timeline whose children are added and removed (DurationSpec); the     *)
(* builder calls to, wait and call made at any time (BuilderSpec); tweens  *)
(* of the tick list added to a Timeline (AdoptSpec); and a tween played to *)
(* its end by a ticker that keeps ticking (PlaySpec).                      *)
(*                                                                         *)
(* Times are integers (the code uses IEEE doubles; `x / d | 0` is modelled *)
(* as truncating division, without the 32-bit wrap of `|`, which the       *)
(* bounds never reach).  Interpolated property values are exact rationals. *)
(***************************************************************************)
EXTENDS Integers, Sequences, FiniteSets, TLC

\* ------------------------------------------------------------------ bounds
MaxLoop == 1
MaxStepDur == 1
MaxSteps == 2
MaxActions == 2
MaxRaw == 4
MaxDelta == 2
MaxGoto == 2
MaxTweens == 2
MaxChildDur == 2
MaxSegDur == 2
NumTweens == 3
MaxTicks == 3
MaxOps == 2
MaxVisits == 4
MaxLabels == 2

\* AbstractTween._timeScale (props.timeScale || 1)
timeScale == 1

PropNames == {"x"}
Loops == -1..MaxLoop
RawInputs == -1..MaxRaw
Deltas == 1..MaxDelta
ToDurations == -1..MaxStepDur
WaitDurations == 0..MaxStepDur
\* setPosition's <<ignoreActions, jump>>
Modes == {<<FALSE, FALSE>>, <<FALSE, TRUE>>, <<TRUE, FALSE>>}

\* ------------------------------------------------------------------ values
\* A JavaScript value of a tweened property: a number (an exact rational
\* n/d), NaN, null, undefined, or "absent" (the object has no such key).
Num(n) == [k |-> "num", n |-> n, d |-> 1]
NaN == [k |-> "nan", n |-> 0, d |-> 1]
Null == [k |-> "null", n |-> 0, d |-> 1]
Undef == [k |-> "undef", n |-> 0, d |-> 1]
Absent == [k |-> "absent", n |-> 0, d |-> 1]

Abs(a) == IF a < 0 THEN -a ELSE a

RECURSIVE GCD(_, _)
GCD(a, b) == IF b = 0 THEN a ELSE GCD(b, a % b)

\* the rational n/d in lowest terms, d > 0
Rat(n, d) ==
    LET g == GCD(Abs(n), Abs(d))
        s == IF d < 0 THEN -1 ELSE 1
    IN  [k |-> "num", n |-> (s * n) \div g, d |-> (s * d) \div g]

IsDefined(v) == v.k \notin {"undef", "absent"}
IsNumber(v) == v.k \in {"num", "nan"}

\* JS ToNumber of a property value inside `v1 - v0`
ToNumber(v) == IF v.k = "null" THEN Num(0)
               ELSE IF v.k \in {"undef", "absent"} THEN NaN ELSE v

\* v0 + (v1 - v0) * ratio in JS arithmetic
Lerp(v0, v1, ratio) ==
    LET a == ToNumber(v0)
        b == ToNumber(v1)
    IN  IF a.k = "nan" \/ b.k = "nan" \/ ratio.k = "nan" THEN NaN
        ELSE Rat(a.n * b.d * ratio.d + (b.n * a.d - a.n * b.d) * ratio.n,
                 a.d * b.d * ratio.d)

\* JS strict inequality v0 !== v1
StrictNeq(v0, v1) ==
    IF v0.k = "nan" \/ v1.k = "nan" THEN TRUE
    ELSE IF v0.k \in {"undef", "absent"} /\ v1.k \in {"undef", "absent"} THEN FALSE
    ELSE v0 # v1

\* ratio >= 1 (false for NaN)
AtLeastOne(ratio) == ratio.k = "num" /\ ratio.n >= ratio.d

\* Ease.linear
linear(t) == t

\* JS `a / b | 0` for b > 0: division truncated towards zero
Trunc(a, b) == IF a >= 0 THEN a \div b ELSE -((-a) \div b)

BoolStr(b) == IF b THEN "true" ELSE "false"

\* ---------------------------------------------------------- position math
\* "current loop is reversed": !this.reversed !== !(this.bounce && loop % 2)
LoopReversed(rev, bnc, lp) == rev # (bnc /\ lp % 2 # 0)

\* Faulty variants of the normalisation, each with one line of setPosition
\* changed; the properties below are checked to tell them from the code.
\* (1) without `if (rawPosition === prevRawPos) return end`
Normalize_AlwaysCommit(r, prevRawPos, d, loopCount, rev, bnc) ==
    LET r1 == IF r < 0 THEN 0 ELSE r
    IN  IF d = 0
        THEN [end |-> TRUE, commit |-> prevRawPos = -1, raw |-> r1, loop |-> 0, t |-> 0]
        ELSE LET lp0 == Trunc(r1, d)
                 t0 == r1 - lp0 * d
                 end == loopCount # -1 /\ r1 >= loopCount * d + d
                 t1 == IF end THEN d ELSE t0
                 lp == IF end THEN loopCount ELSE lp0
                 r2 == IF end THEN t1 * lp + d ELSE r1
             IN  [end |-> end, commit |-> TRUE, raw |-> r2, loop |-> lp,
                  t |-> IF LoopReversed(rev, bnc, lp) THEN d - t1 ELSE t1]

\* (2) without `t = d - t` on a reversed loop
Normalize_NoReverse(r, prevRawPos, d, loopCount, rev, bnc) ==
    LET r1 == IF r < 0 THEN 0 ELSE r
    IN  IF d = 0
        THEN [end |-> TRUE, commit |-> prevRawPos = -1, raw |-> r1, loop |-> 0, t |-> 0]
        ELSE LET lp0 == Trunc(r1, d)
                 t0 == r1 - lp0 * d
                 end == loopCount # -1 /\ r1 >= loopCount * d + d
                 t1 == IF end THEN d ELSE t0
                 lp == IF end THEN loopCount ELSE lp0
                 r2 == IF end THEN t1 * lp + d ELSE r1
             IN  [end |-> end, commit |-> r2 # prevRawPos, raw |-> r2, loop |-> lp,
                  t |-> t1]

\* (3) with a multiple of the duration counted to the loop before it
Normalize_EarlierPass(r, prevRawPos, d, loopCount, rev, bnc) ==
    LET r1 == IF r < 0 THEN 0 ELSE r
    IN  IF d = 0
        THEN [end |-> TRUE, commit |-> prevRawPos = -1, raw |-> r1, loop |-> 0, t |-> 0]
        ELSE LET early == r1 > 0 /\ r1 % d = 0
                 lp0 == IF early THEN Trunc(r1, d) - 1 ELSE Trunc(r1, d)
                 t0 == r1 - lp0 * d
                 end == loopCount # -1 /\ r1 >= loopCount * d + d
                 t1 == IF end THEN d ELSE t0
                 lp == IF end THEN loopCount ELSE lp0
                 r2 == IF end THEN t1 * lp + d ELSE r1
             IN  [end |-> end, commit |-> r2 # prevRawPos, raw |-> r2, loop |-> lp,
                  t |-> IF LoopReversed(rev, bnc, lp) THEN d - t1 ELSE t1]

\* (4) without `if (prevRawPos !== -1) return end` for a duration of 0
Normalize_ZeroAgain(r, prevRawPos, d, loopCount, rev, bnc) ==
    LET r1 == IF r < 0 THEN 0 ELSE r
    IN  IF d = 0
        THEN [end |-> TRUE, commit |-> TRUE, raw |-> r1, loop |-> 0, t |-> 0]
        ELSE LET lp0 == Trunc(r1, d)
                 t0 == r1 - lp0 * d
                 end == loopCount # -1 /\ r1 >= loopCount * d + d
                 t1 == IF end THEN d ELSE t0
                 lp == IF end THEN loopCount ELSE lp0
                 r2 == IF end THEN t1 * lp + d ELSE r1
             IN  [end |-> end, commit |-> r2 # prevRawPos, raw |-> r2, loop |-> lp,
                  t |-> IF LoopReversed(rev, bnc, lp) THEN d - t1 ELSE t1]

\* The normalisation of AbstractTween.setPosition up to the two early
\* returns: end, the clamped raw position, the loop, the normalised
\* position, and whether the call goes on to commit them.
Normalize(r, prevRawPos, d, loopCount, rev, bnc) ==
    LET r1 == IF r < 0 THEN 0 ELSE r
    IN  IF d = 0
        THEN [end |-> TRUE, commit |-> prevRawPos = -1, raw |-> r1, loop |-> 0, t |-> 0]
        ELSE LET lp0 == Trunc(r1, d)
                 t0 == r1 - lp0 * d
                 end == loopCount # -1 /\ r1 >= loopCount * d + d
                 t1 == IF end THEN d ELSE t0
                 lp == IF end THEN loopCount ELSE lp0
                 r2 == IF end THEN t1 * lp + d ELSE r1
             IN  [end |-> end, commit |-> r2 # prevRawPos, raw |-> r2, loop |-> lp,
                  t |-> IF LoopReversed(rev, bnc, lp) THEN d - t1 ELSE t1]

\* A faulty calculatePosition that reverses by `reversed` alone
calculatePosition_NoBounce(r, d, loopCount, rev, bnc) ==
    IF d = 0 THEN 0
    ELSE LET end == loopCount # -1 /\ r >= loopCount * d + d
             lp == IF end THEN loopCount ELSE IF r < 0 THEN 0 ELSE Trunc(r, d)
             t == IF end THEN d ELSE IF r < 0 THEN 0 ELSE r - lp * d
         IN  IF rev THEN d - t ELSE t

\* A faulty calculatePosition without the clamp at the end of the last loop
calculatePosition_NoClamp(r, d, loopCount, rev, bnc) ==
    IF d = 0 THEN 0
    ELSE LET lp == IF r < 0 THEN 0 ELSE Trunc(r, d)
             t == IF r < 0 THEN 0 ELSE r - lp * d
         IN  IF LoopReversed(rev, bnc, lp) THEN d - t ELSE t

\* AbstractTween.calculatePosition
calculatePosition(r, d, loopCount, rev, bnc) ==
    IF d = 0 THEN 0
    ELSE LET end == loopCount # -1 /\ r >= loopCount * d + d
             lp == IF end THEN loopCount ELSE IF r < 0 THEN 0 ELSE Trunc(r, d)
             t == IF end THEN d ELSE IF r < 0 THEN 0 ELSE r - lp * d
         IN  IF LoopReversed(rev, bnc, lp) THEN d - t ELSE t

\* ------------------------------------------------------------ action list
\* An action list is a sequence of records [t |-> time]; an action is
\* named by its index in the list.  Backward(n) is the order in which the
\* list is walked through the prev links from _actionTail.
Forward(n) == [i \in 1..n |-> i]
Backward(n) == [i \in 1..n |-> n + 1 - i]

\* A faulty _runActionsRange without the test `pos === endPos`
_runActionsRange_NoEnd(acts, startPos, endPos, includeStart) ==
    LET rev == startPos > endPos
        sPos == IF rev THEN endPos ELSE startPos
        ePos == IF rev THEN startPos ELSE endPos
        hit(i) == \/ (acts[i].t > sPos /\ acts[i].t < ePos)
                  \/ (includeStart /\ acts[i].t = startPos)
        walk == IF rev THEN Backward(Len(acts)) ELSE Forward(Len(acts))
    IN  SelectSeq(walk, hit)

\* Tween._runActionsRange: the actions fired, in order
_runActionsRange(acts, startPos, endPos, includeStart) ==
    LET rev == startPos > endPos
        sPos == IF rev THEN endPos ELSE startPos
        ePos == IF rev THEN startPos ELSE endPos
        hit(i) == \/ acts[i].t = endPos
                  \/ (acts[i].t > sPos /\ acts[i].t < ePos)
                  \/ (includeStart /\ acts[i].t = startPos)
        walk == IF rev THEN Backward(Len(acts)) ELSE Forward(Len(acts))
    IN  SelectSeq(walk, hit)

\* The do-while loop of Tween._runActions from loop index lp on; c holds the
\* loop's constants.
RECURSIVE RunLoops(_, _, _, _)
RunLoops(acts, c, lp, includeStart) ==
    LET rev == LoopReversed(c.reversed, c.bounce, lp)
        start0 == IF lp = c.loop0 THEN c.t0 ELSE IF c.dir THEN 0 ELSE c.d
        end0 == IF lp = c.loop1 THEN c.t1 ELSE IF c.dir THEN c.d ELSE 0
        start == IF rev THEN c.d - start0 ELSE start0
        end == IF rev THEN c.d - end0 ELSE end0
        fired == IF c.bounce /\ lp # c.loop0 /\ start = end THEN << >>
                 ELSE _runActionsRange(acts, start, end,
                                       includeStart \/ (lp # c.loop0 /\ ~c.bounce))
        more == IF c.dir THEN lp + 1 <= c.loop1 ELSE lp - 1 >= c.loop1
        nxt == IF c.dir THEN lp + 1 ELSE lp - 1
    IN  IF more THEN fired \o RunLoops(acts, c, nxt, FALSE) ELSE fired

\* Tween._runActions: the actions fired, in order
_runActions(acts, startRawPos, endRawPos, jump, includeStart, d, loopCount, rev, bnc) ==
    IF acts = << >> THEN << >>
    ELSE
    LET zero == d = 0
        reversed0 == IF zero THEN FALSE ELSE rev
        bounce0 == IF zero THEN FALSE ELSE bnc
        l0 == IF zero THEN 0 ELSE Trunc(startRawPos, d)
        l1 == IF zero THEN 0 ELSE Trunc(endRawPos, d)
        ta == IF zero THEN 0 ELSE startRawPos - l0 * d
        tb == IF zero THEN 0 ELSE endRawPos - l1 * d
        past1 == loopCount # -1 /\ l1 > loopCount
        past0 == loopCount # -1 /\ l0 > loopCount
        t1 == IF past1 THEN d ELSE tb
        loop1 == IF past1 THEN loopCount ELSE l1
        t0 == IF past0 THEN d ELSE ta
        loop0 == IF past0 THEN loopCount ELSE l0
    IN  IF jump THEN _runActionsRange(acts, t1, t1, includeStart)
        ELSE IF loop0 = loop1 /\ t0 = t1 /\ ~includeStart THEN << >>
        ELSE LET first == loop0 = -1
                 c == [d |-> d, reversed |-> reversed0, bounce |-> bounce0,
                       loop0 |-> IF first THEN 0 ELSE loop0,
                       t0 |-> IF first THEN 0 ELSE t0,
                       loop1 |-> loop1, t1 |-> t1,
                       dir |-> startRawPos <= endRawPos]
             IN  RunLoops(acts, c, c.loop0, includeStart)

\* ------------------------------------------------------------- step chain
\* steps[1] is _stepHead; a step is [t, d, props, passive], props being the
\* index in propObjs of its props object (a wait shares its predecessor's).
\* t - step.t over step.d, or t over d: a ratio, NaN for 0/0
Ratio(n, d) == IF d # 0 THEN Rat(n, d)
               ELSE IF n = 0 THEN NaN ELSE [k |-> "inf", n |-> 0, d |-> 1]

\* A faulty step search that leaves a step only after the next one's start:
\* stepNext.t < t
RECURSIVE FindStep_Late(_, _, _)
FindStep_Late(st, i, t) ==
    IF i + 1 <= Len(st) /\ st[i + 1].t < t THEN FindStep_Late(st, i + 1, t) ELSE i

\* the while loop of Tween._updatePosition: the latest step from i on whose
\* successor does not start after t
RECURSIVE FindStep(_, _, _)
FindStep(st, i, t) ==
    IF i + 1 <= Len(st) /\ st[i + 1].t <= t THEN FindStep(st, i + 1, t) ELSE i

\* A faulty interpolation that holds v0 until the step is over
StepValue_Held(v0, v1, ratio) ==
    LET v == IF AtLeastOne(ratio) \/ ratio.k = "inf" THEN v1 ELSE v0
    IN  IF v.k = "absent" THEN Undef ELSE v

\* the value Tween._updateTargetProps assigns to target[n]
StepValue(v0, v1, ratio) ==
    LET v == IF StrictNeq(v0, v1) /\ IsNumber(v0)
             THEN (IF ratio.k = "inf" THEN ratio ELSE Lerp(v0, v1, ratio))
             ELSE IF AtLeastOne(ratio) \/ ratio.k = "inf" THEN v1 ELSE v0
    IN  IF v.k = "absent" THEN Undef ELSE v

\* A faulty _updateTargetProps without the return on a passive step
_updateTargetProps_OnPassive(st, heap, tgt, i, ratio) ==
    LET p0 == heap[st[i - 1].props]
        p1 == heap[st[i].props]
        r == linear(ratio)
        keys == {n \in PropNames : p0[n].k # "absent"}
    IN  [target |-> [n \in PropNames |->
                       IF n \in keys THEN StepValue(p0[n], p1[n], r) ELSE tgt[n]],
         passive |-> st[i].passive, writes |-> keys]

\* Tween._updateTargetProps: [target, passive, writes]
_updateTargetProps(st, heap, tgt, i, ratio) ==
    IF st[i].passive
    THEN [target |-> tgt, passive |-> TRUE, writes |-> {}]
    ELSE LET p0 == heap[st[i - 1].props]
             p1 == heap[st[i].props]
             r == linear(ratio)
             keys == {n \in PropNames : p0[n].k # "absent"}
         IN  [target |-> [n \in PropNames |->
                            IF n \in keys THEN StepValue(p0[n], p1[n], r) ELSE tgt[n]],
              passive |-> FALSE, writes |-> keys]

\* Tween._updatePosition: [target, passive, writes, stepPosition]
_updatePosition(st, heap, tgt, psv, t, d, end) ==
    IF Len(st) < 2
    THEN [target |-> tgt, passive |-> psv, writes |-> {}, stepPosition |-> 0]
    ELSE LET i == FindStep(st, 2, t)
             ratio == IF end THEN (IF d = 0 THEN Num(1) ELSE Ratio(t, d))
                      ELSE Ratio(t - st[i].t, st[i].d)
             u == _updateTargetProps(st, heap, tgt, i, ratio)
         IN  [target |-> u.target, passive |-> u.passive, writes |-> u.writes,
              stepPosition |-> t - st[i].t]

\* A faulty _addStep that starts every step at offset 0
_addStep_AtZero(st, total, dur, pid, psv) ==
    Append(st, [t |-> 0, d |-> dur, props |-> pid, passive |-> psv])

\* Tween._addStep: the chain with the new step appended
_addStep(st, total, dur, pid, psv) ==
    Append(st, [t |-> total, d |-> dur, props |-> pid, passive |-> psv])

\* the back-propagation loop of Tween._appendProps for one property: vals
\* maps each props object to its value of the property, o is the step the
\* walk stands on, old the props object of the step before the new one
RECURSIVE Propagate(_, _, _, _)
Propagate(st, vals, o, old) ==
    IF o = 1 THEN vals
    ELSE IF st[o - 1].props = st[o].props THEN Propagate(st, vals, o - 1, old)
    ELSE IF IsDefined(vals[st[o - 1].props]) THEN vals
    ELSE Propagate(st,
                   [vals EXCEPT ![st[o - 1].props] =
                        IF IsDefined(vals[old]) THEN vals[old] ELSE Undef],
                   o - 1, old)

\* Tween._appendProps (no plugins) on the step just appended to st, whose
\* props object is the last of heap: the props objects afterwards
_appendProps(st, heap, props, tgt) ==
    LET new == st[Len(st)].props
        oldStep == Len(st) - 1
        old == st[oldStep].props
        one(n) ==
            LET vals0 == [q \in 1..Len(heap) |-> heap[q][n]]
                vals1 == [vals0 EXCEPT ![new] = props[n]]
                vals2 == IF IsDefined(vals1[st[1].props]) THEN vals1
                         ELSE [vals1 EXCEPT ![old] =
                                  IF IsDefined(tgt[n]) THEN tgt[n] ELSE Null]
            IN  IF props[n].k = "absent" THEN vals0
                ELSE Propagate(st, vals2, oldStep, old)
    IN  [q \in 1..Len(heap) |-> [n \in PropNames |-> one(n)[q]]]

\* ------------------------------------------------------------------ state
VARIABLES
    loop, reversed, bounce,     \* AbstractTween.loop / reversed / bounce
    duration,                   \* AbstractTween.duration
    position,                   \* AbstractTween.position
    rawPosition,                \* AbstractTween.rawPosition
    _paused,                    \* AbstractTween._paused
    _status,                    \* AbstractTween._status
    passive,                    \* Tween.passive
    _stepPosition,              \* Tween._stepPosition
    steps, propObjs,            \* the chain from _stepHead and its props objects
    actions,                    \* the list from _actionHead
    target,                     \* the tweened properties of Tween.target
    tweenjs_count,              \* target.tweenjs_count
    registry,                   \* the list from Tween._tweenHead to Tween._tweenTail
    out,                        \* what the last call returned, fired, emitted and wrote
    reaction,                   \* what the callback of one action does to the tween
    trace,                      \* the actions the last call ran, nested calls included
    timeline,                   \* a Timeline: its fields, its tweens and the log of its last call
    ticker,                     \* the tick list of several tweens, and Tween.tick in progress
    player                      \* the tween's labels, the log of its last call and what that call threw

config == <<loop, reversed, bounce>>
chain == <<duration, steps, propObjs, actions>>
playhead == <<position, rawPosition, passive, _stepPosition, target>>
listing == <<_paused, _status, tweenjs_count, registry>>
reentry == <<reaction, trace>>
others == <<reentry, timeline, ticker, player>>
vars == <<config, chain, playhead, listing, out, others>>

\* the tween's place in the tick list (there is one tween)
Self == 1

\* the record of a call: op(req, ignoreActions, jump), made at raw position
\* `from`, returned ret, fired the actions `fired`, emitted `events` and
\* assigned the target properties `writes`
Result(op, req, from, ia, jump, ret, fired, events, writes) ==
    [op |-> op, req |-> req, from |-> from, ia |-> ia, jump |-> jump, ret |-> ret,
     fired |-> fired, events |-> events, writes |-> writes]

Quiet(op, req, ret) == Result(op, req, 0, FALSE, FALSE, ret, << >>, << >>, {})

\* Tween._register outside a tick, with Tween._delist: the listing afterwards
_register(l, paused) ==
    IF ~paused /\ l.paused
    THEN [paused |-> paused, status |-> 0, count |-> l.count + 1,
          registry |-> Append(l.registry, Self)]
    ELSE IF paused /\ ~l.paused
    THEN [paused |-> paused, status |-> -1, count |-> l.count - 1,
          registry |-> SelectSeq(l.registry, LAMBDA x : x # Self)]
    ELSE [l EXCEPT !.paused = paused]

Listing == [paused |-> _paused, status |-> _status, count |-> tweenjs_count,
            registry |-> registry]

SetListing(l) ==
    /\ _paused' = l.paused
    /\ _status' = l.status
    /\ tweenjs_count' = l.count
    /\ registry' = l.registry

\* new Tween(target, {loop, reversed, bounce}): the fields' defaults, then
\* _init unpauses the tween, which registers it
TweenInit ==
    /\ loop \in Loops
    /\ reversed \in BOOLEAN
    /\ bounce \in BOOLEAN
    /\ duration = 0
    /\ position = 0
    /\ rawPosition = -1
    /\ passive = FALSE
    /\ _stepPosition = 0
    /\ steps = << [t |-> 0, d |-> 0, props |-> 1, passive |-> TRUE] >>
    /\ propObjs = << [n \in PropNames |-> Absent] >>
    /\ actions = << >>
    /\ target = [n \in PropNames |-> Num(0)]
    /\ _paused = FALSE
    /\ _status = 0
    /\ tweenjs_count = 1
    /\ registry = << Self >>
    /\ out = Quiet("new", 0, "undefined")

\* the callbacks of the tween's actions leave the tween alone
NoReaction == [who |-> 0, to |-> 0, ia |-> FALSE, jump |-> FALSE]

\* --------------------------------------------------------------- tick list
\* The tick list of NumTweens tweens.  A record K holds Tween._tweenHead,
\* Tween._tweenTail and Tween._inTick, and for each tween its _next, _prev,
\* _status, _lastTick, _paused, useTicks, ignoreGlobalPause, its target's
\* tweenjs_count and _parent (1 for the timeline); 0 stands for an undefined
\* reference.
Tweens == 1..NumTweens

\* Tween._delist
_delist(K, x) ==
    LET next == K.tw[x]._next
        prev == K.tw[x]._prev
        K1 == IF next # 0 THEN [K EXCEPT !.tw[next]._prev = prev]
              ELSE [K EXCEPT !._tweenTail = prev]
        K2 == IF prev # 0 THEN [K1 EXCEPT !.tw[prev]._next = next]
              ELSE [K1 EXCEPT !._tweenHead = next]
    IN  [K2 EXCEPT !.tw[x]._next = 0, !.tw[x]._prev = 0]

\* A faulty _register that leaves the delisting to the tick when the tween
\* has been visited and delists at once when it has not:
\* tween._lastTick !== Tween._inTick
Tween_register_Flipped(K, x, paused) ==
    IF ~paused /\ K.tw[x]._paused
    THEN LET tail == K._tweenTail
             K1 == [K EXCEPT !.tw[x].tweenjs_count = @ + 1]
             K2 == IF tail = 0
                   THEN [K1 EXCEPT !._tweenHead = x, !._tweenTail = x]
                   ELSE [[[K1 EXCEPT !._tweenTail = x]
                               EXCEPT !.tw[tail]._next = x]
                               EXCEPT !.tw[x]._prev = tail]
         IN  [K2 EXCEPT !.tw[x]._status = IF K._inTick # 0 THEN 1 ELSE 0,
                        !.tw[x]._paused = paused]
    ELSE IF paused /\ ~K.tw[x]._paused
    THEN LET K1 == [K EXCEPT !.tw[x].tweenjs_count = @ - 1]
             K2 == IF K._inTick = 0 \/ K.tw[x]._lastTick # K._inTick
                   THEN _delist(K1, x) ELSE K1
         IN  [K2 EXCEPT !.tw[x]._status = -1, !.tw[x]._paused = paused]
    ELSE [K EXCEPT !.tw[x]._paused = paused]

\* Tween._register(tween, paused), in or out of a tick
Tween_register(K, x, paused) ==
    IF ~paused /\ K.tw[x]._paused
    THEN LET tail == K._tweenTail
             K1 == [K EXCEPT !.tw[x].tweenjs_count = @ + 1]
             K2 == IF tail = 0
                   THEN [K1 EXCEPT !._tweenHead = x, !._tweenTail = x]
                   ELSE [[[K1 EXCEPT !._tweenTail = x]
                               EXCEPT !.tw[tail]._next = x]
                               EXCEPT !.tw[x]._prev = tail]
         IN  [K2 EXCEPT !.tw[x]._status = IF K._inTick # 0 THEN 1 ELSE 0,
                        !.tw[x]._paused = paused]
    ELSE IF paused /\ ~K.tw[x]._paused
    THEN LET K1 == [K EXCEPT !.tw[x].tweenjs_count = @ - 1]
             K2 == IF K._inTick = 0 \/ K.tw[x]._lastTick = K._inTick
                   THEN _delist(K1, x) ELSE K1
         IN  [K2 EXCEPT !.tw[x]._status = -1, !.tw[x]._paused = paused]
    ELSE [K EXCEPT !.tw[x]._paused = paused]

\* the tweens reached from x through _next, at most n of them
RECURSIVE Chain(_, _, _)
Chain(K, x, n) ==
    IF x = 0 \/ n = 0 THEN << >> ELSE << x >> \o Chain(K, K.tw[x]._next, n - 1)

\* the tick list as Tween.tick walks it from _tweenHead
List(K) == Chain(K, K._tweenHead, NumTweens + 1)

\* the tick list is a well-formed doubly linked list: the walk from
\* _tweenHead through _next ends without meeting a tween twice, _tweenTail
\* is its last tween, every _prev is the tween before, and a tween outside
\* the walk has no links
WellFormed(K) ==
    LET L == List(K)
    IN  /\ Len(L) <= NumTweens
        /\ \A i \in 1..Len(L), j \in 1..Len(L) : L[i] = L[j] => i = j
        /\ K._tweenTail = (IF L = << >> THEN 0 ELSE L[Len(L)])
        /\ \A i \in 1..Len(L) : K.tw[L[i]]._prev = (IF i = 1 THEN 0 ELSE L[i - 1])
        /\ \A x \in Tweens :
               (\A i \in 1..Len(L) : L[i] # x)
                 => (K.tw[x]._next = 0 /\ K.tw[x]._prev = 0)

\* K and K2 have the same head, tail and links
SameLinks(K, K2) ==
    /\ K2._tweenHead = K._tweenHead
    /\ K2._tweenTail = K._tweenTail
    /\ \A y \in Tweens : /\ K2.tw[y]._next = K.tw[y]._next
                         /\ K2.tw[y]._prev = K.tw[y]._prev

\* tween x is in the tick list
Listed(K, x) == \E k \in 1..Len(List(K)) : List(K)[k] = x

\* What the model remembers besides the code's fields.  Of the tick in
\* progress or just over: `visits`, the loop's iterations in order, each
\* [tween, status and paused (the _status and _paused read), by (the
\* argument of advance, 0 for no advance)]; `entries`, the list when the tick
\* began, and `active`, its tweens of _status 0; `running`, the tweens that
\* were unpaused with _status 0 when the tick began; `touched`, the tweens
\* paused or unpaused since it began.  `lastPause` describes the last pause
\* that unregistered a tween: who, whether a tick was in progress and had
\* visited the tween, whether the tween's _lastTick was the tick's id, whether
\* the list was well-formed (intact), whether the tween was in the list
\* before and after (listed), whether its own links are cleared, whether all
\* links were kept as they were, and its _status after.  Of each tween: `age`, 1 when it was registered
\* in the tick in progress, 2 once that tick is over, 3 once the tick after
\* it is over, 0 otherwise; `moved`, whether it has been advanced since;
\* `held`, whether a global pause kept it from advancing in the tick after.
NoPause == [who |-> 0, inTick |-> FALSE, visited |-> FALSE, stamped |-> FALSE,
            intact |-> FALSE, before |-> FALSE, listed |-> FALSE, cleared |-> FALSE,
            kept |-> FALSE, status |-> 0]

\* the setter `tween.paused = paused`
SetPausedIn(K, x, paused) ==
    LET K1 == Tween_register(K, x, paused)
        K2 == [K1 EXCEPT !.tw[x]._paused = paused]
        visited == \E k \in 1..Len(K.visits) : K.visits[k].tween = x
    IN  IF ~paused /\ K.tw[x]._paused
        THEN [K2 EXCEPT !.tw[x].age = IF K._inTick # 0 THEN 1 ELSE 0,
                        !.tw[x].moved = FALSE, !.tw[x].held = FALSE,
                        !.touched = @ \cup {x}]
        ELSE IF paused /\ ~K.tw[x]._paused
        THEN [K2 EXCEPT !.tw[x].age = 0, !.tw[x].moved = FALSE, !.tw[x].held = FALSE,
                        !.touched = @ \cup {x},
                        !.lastPause = [who |-> x, inTick |-> K._inTick # 0,
                                       visited |-> visited,
                                       stamped |-> K.tw[x]._lastTick = K._inTick,
                                       intact |-> WellFormed(K),
                                       before |-> Listed(K, x),
                                       listed |-> Listed(K2, x),
                                       cleared |-> K2.tw[x]._next = 0
                                                   /\ K2.tw[x]._prev = 0,
                                       kept |-> SameLinks(K, K2),
                                       status |-> K2.tw[x]._status]]
        ELSE K2

\* the tweens 1..n constructed in order: new Tween(target, props[x]), whose
\* _init registers the tween unless props.paused
RECURSIVE Constructed(_, _)
Constructed(props, n) ==
    IF n = 0
    THEN [_tweenHead |-> 0, _tweenTail |-> 0, _inTick |-> 0, now |-> 1, ticks |-> 0, calls |-> 0, cursor |-> 0,
          delta |-> 1, paused |-> FALSE,
          visits |-> << >>, entries |-> << >>, active |-> {}, running |-> {},
          touched |-> {},
          lastPause |-> NoPause,
          tw |-> [x \in Tweens |->
                    [_next |-> 0, _prev |-> 0, _status |-> -1, _lastTick |-> 0,
                     _paused |-> TRUE, useTicks |-> props[x].useTicks,
                     ignoreGlobalPause |-> props[x].ignoreGlobalPause,
                     tweenjs_count |-> 0, _parent |-> 0,
                     age |-> 0, moved |-> FALSE, held |-> FALSE]]]
    ELSE IF props[n].paused THEN Constructed(props, n - 1)
    ELSE SetPausedIn(Constructed(props, n - 1), n, FALSE)

\* tweens all constructed paused, none ever registered
IdleTicker ==
    Constructed([x \in Tweens |-> [paused |-> TRUE, useTicks |-> FALSE,
                                   ignoreGlobalPause |-> FALSE]], NumTweens)

\* The labels of the tween: `_labels` is the object AbstractTween._labels, its
\* own properties in the order they were created, each [label, position];
\* `_labelList` is the array AbstractTween._labelList.  `log` lists what the
\* last call of setPosition did, in order, nested calls included: "update"
\* (position, rawPosition and the target's properties are set; `raw` is the
\* raw position set), "action" (action `a` is run), "change" and "complete"
\* (the event is dispatched), each with the call that did it.  `thrown` is what
\* the last call threw, "" when it returned.
NewPlayer == [_labels |-> << >>, _labelList |-> << >>, log |-> << >>, thrown |-> "",
              arg |-> [isNumber |-> TRUE, n |-> 0, label |-> ""]]

\* new Timeline({loop, reversed, bounce}): no tweens, and _init unpauses it
NewTimeline(lp, rev, bnc) ==
    [tweens |-> << >>, duration |-> 0, loop |-> lp, reversed |-> rev, bounce |-> bnc,
     position |-> 0, rawPosition |-> -1, paused |-> FALSE, op |-> "new", log |-> << >>]

Init ==
    /\ TweenInit
    /\ reaction = NoReaction
    /\ trace = << >>
    /\ player = NewPlayer
    /\ timeline = NewTimeline(0, FALSE, FALSE)
    /\ ticker = IdleTicker

\* AbstractTween.setPosition(r, ignoreActions, jump) called as `op` with the
\* argument req; `visible` tells whether op hands the returned value on
SetPositionAs(op, req, r, ignoreActions, jump, visible) ==
    LET nz == Normalize(r, rawPosition, duration, loop, reversed, bounce)
        u == _updatePosition(steps, propObjs, target, passive, nz.t, duration, nz.end)
        fired == IF ignoreActions THEN << >>
                 ELSE _runActions(actions, rawPosition, nz.raw, jump,
                                  ~jump /\ rawPosition = -1,
                                  duration, loop, reversed, bounce)
    IN  IF ~nz.commit
        THEN /\ out' = Result(op, req, rawPosition, ignoreActions, jump,
                              IF visible THEN BoolStr(nz.end) ELSE "undefined",
                              << >>, << >>, {})
             /\ UNCHANGED <<config, chain, playhead, listing, others>>
        ELSE /\ position' = nz.t
             /\ rawPosition' = nz.raw
             /\ target' = u.target
             /\ passive' = u.passive
             /\ _stepPosition' = u.stepPosition
             /\ SetListing(IF nz.end THEN _register(Listing, TRUE) ELSE Listing)
             /\ out' = Result(op, req, rawPosition, ignoreActions, jump, "undefined", fired,
                              IF nz.end THEN <<"change", "complete">> ELSE <<"change">>,
                              u.writes)
             /\ UNCHANGED <<config, chain, others>>

setPosition(r, ignoreActions, jump) ==
    SetPositionAs("setPosition", r, r, ignoreActions, jump, TRUE)

\* AbstractTween.advance(delta, ignoreActions)
advance(delta, ignoreActions) ==
    /\ rawPosition + delta * timeScale <= MaxRaw
    /\ SetPositionAs("advance", rawPosition + delta * timeScale,
                     rawPosition + delta * timeScale, ignoreActions, FALSE, FALSE)

\* A faulty calculatePosition(r) that stores its result in `position`
CalculatePosition_Caching(r) ==
    /\ out' = Quiet("calculatePosition", r,
                    calculatePosition(r, duration, loop, reversed, bounce))
    /\ position' = calculatePosition(r, duration, loop, reversed, bounce)
    /\ UNCHANGED <<config, chain, rawPosition, passive, _stepPosition, target, listing, others>>

\* tween.calculatePosition(r)
CalculatePosition(r) ==
    /\ out' = Quiet("calculatePosition", r,
                    calculatePosition(r, duration, loop, reversed, bounce))
    /\ UNCHANGED <<config, chain, playhead, listing, others>>

\* tween.paused = paused
SetPaused(paused) ==
    /\ SetListing(_register(Listing, paused))
    /\ out' = Quiet("paused", 0, 0)
    /\ UNCHANGED <<config, chain, playhead, others>>

\* Tween.to(props, d)
to(props, d) ==
    LET dur == IF d < 0 THEN 0 ELSE d
        heap == Append(propObjs, [n \in PropNames |-> Absent])
        st == _addStep(steps, duration, dur, Len(heap), FALSE)
    IN  /\ Len(steps) <= MaxSteps
        /\ steps' = st
        /\ duration' = duration + dur
        /\ propObjs' = _appendProps(st, heap, props, target)
        /\ out' = Quiet("to", 0, 0)
        /\ UNCHANGED <<config, actions, playhead, listing, others>>

\* A faulty wait whose step gets a props object of its own, empty as the one
\* of a step made by `to`
wait_FreshProps(d, psv) ==
    /\ Len(steps) <= MaxSteps
    /\ IF d > 0
       THEN /\ steps' = _addStep(steps, duration, d, Len(propObjs) + 1, psv)
            /\ propObjs' = Append(propObjs, [n \in PropNames |-> Absent])
            /\ duration' = duration + d
       ELSE UNCHANGED <<steps, duration, propObjs>>
    /\ out' = Quiet("wait", d, 0)
    /\ UNCHANGED <<config, actions, playhead, listing, others>>

\* Tween.wait(d, passive)
wait(d, psv) ==
    /\ Len(steps) <= MaxSteps
    /\ IF d > 0
       THEN /\ steps' = _addStep(steps, duration, d, steps[Len(steps)].props, psv)
            /\ duration' = duration + d
       ELSE UNCHANGED <<steps, duration>>
    /\ out' = Quiet("wait", d, 0)
    /\ UNCHANGED <<config, propObjs, actions, playhead, listing, others>>

\* Tween.call(callback): Tween._addAction
call ==
    /\ Len(actions) < MaxActions
    /\ actions' = Append(actions, [t |-> duration])
    /\ out' = Quiet("call", 0, 0)
    /\ UNCHANGED <<config, duration, steps, propObjs, playhead, listing, others>>

ToProps == {[n \in PropNames |-> Num(100)]}

\* The calls made on a tween: position updates, previews, and the builder
\* calls to and call, at any time.
Next ==
    \/ \E r \in RawInputs, m \in Modes : setPosition(r, m[1], m[2])
    \/ \E delta \in Deltas : advance(delta, FALSE)
    \/ \E r \in RawInputs : CalculatePosition(r)
    \/ \E props \in ToProps, d \in ToDurations : to(props, d)
    \/ call

Spec == Init /\ [][Next]_vars


\* ------------------------------------------------------ re-entrant actions
\* An action's callback may call setPosition on the tween that runs it.
\* `reaction` says which action does (who, an index of the action list, 0
\* for none) and with what arguments.  The call is followed through its own
\* updates and its own actions; a record S holds the tween's fields while
\* calls are in progress, S.calls counts the calls of setPosition, and
\* S.trace lists every action run: [a |-> the action, call |-> the call that
\* ran it, moved |-> whether position differed from the position
\* _runActionsRange had read when the callback returned].
Entering ==
    [position |-> position, rawPosition |-> rawPosition, target |-> target,
     passive |-> passive, stepPosition |-> _stepPosition, listing |-> Listing,
     trace |-> << >>, events |-> << >>, writes |-> {}, calls |-> 0, ret |-> "undefined",
     log |-> << >>]

\* an entry of the log
Did(kind, id, a, raw) == [kind |-> kind, call |-> id, a |-> a, raw |-> raw]

\* Tween._set(props) with scope the tween itself: `this.paused = props.paused`
_set(S, props) == [S EXCEPT !.listing = _register(@, props.paused)]

RECURSIVE SetPositionIn(_, _, _, _)
RECURSIVE RunRangeIn(_, _, _, _, _, _, _)
RECURSIVE RunLoopsIn(_, _, _, _, _)

\* action.funct.apply(...): action i runs inside call `id`, t being the
\* position _runActionsRange read on entry
Fire(S, i, id, t) ==
    LET at == Len(S.trace) + 1
        S0 == [S EXCEPT !.trace = Append(@, [a |-> i, call |-> id, moved |-> FALSE]),
                        !.log = Append(@, Did("action", id, i, -1))]
        S1 == IF reaction.who = i
              THEN SetPositionIn(S0, reaction.to, reaction.ia, reaction.jump)
              ELSE IF "props" \in DOMAIN actions[i]
              THEN _set(S0, actions[i].props)
              ELSE S0
    IN  [S1 EXCEPT !.trace[at].moved = (S1.position # t), !.ret = S.ret]

\* A faulty _runActionsRange without `if (t !== this.position) return true`
RECURSIVE RunRangeIn_NoCheck(_, _, _, _, _, _, _)
RunRangeIn_NoCheck(S, id, k, startPos, endPos, includeStart, t) ==
    LET rev == startPos > endPos
        sPos == IF rev THEN endPos ELSE startPos
        ePos == IF rev THEN startPos ELSE endPos
        i == IF rev THEN Len(actions) + 1 - k ELSE k
        pos == actions[i].t
        hit == \/ pos = endPos
               \/ (pos > sPos /\ pos < ePos)
               \/ (includeStart /\ pos = startPos)
    IN  IF k > Len(actions) THEN [s |-> S, stop |-> FALSE]
        ELSE IF ~hit THEN RunRangeIn_NoCheck(S, id, k + 1, startPos, endPos, includeStart, t)
        ELSE RunRangeIn_NoCheck(Fire(S, i, id, t), id, k + 1, startPos, endPos,
                                includeStart, t)

\* Tween._runActionsRange from the k-th action of its walk on: the tween
\* afterwards, and whether it returned true
RunRangeIn(S, id, k, startPos, endPos, includeStart, t) ==
    LET rev == startPos > endPos
        sPos == IF rev THEN endPos ELSE startPos
        ePos == IF rev THEN startPos ELSE endPos
        i == IF rev THEN Len(actions) + 1 - k ELSE k
        pos == actions[i].t
        hit == \/ pos = endPos
               \/ (pos > sPos /\ pos < ePos)
               \/ (includeStart /\ pos = startPos)
    IN  IF k > Len(actions) THEN [s |-> S, stop |-> FALSE]
        ELSE IF ~hit THEN RunRangeIn(S, id, k + 1, startPos, endPos, includeStart, t)
        ELSE LET S1 == Fire(S, i, id, t)
             IN  IF S1.position # t THEN [s |-> S1, stop |-> TRUE]
                 ELSE RunRangeIn(S1, id, k + 1, startPos, endPos, includeStart, t)

\* the do-while loop of Tween._runActions from loop index lp on
RunLoopsIn(S, id, c, lp, includeStart) ==
    LET rev == LoopReversed(c.reversed, c.bounce, lp)
        start0 == IF lp = c.loop0 THEN c.t0 ELSE IF c.dir THEN 0 ELSE c.d
        end0 == IF lp = c.loop1 THEN c.t1 ELSE IF c.dir THEN c.d ELSE 0
        start == IF rev THEN c.d - start0 ELSE start0
        end == IF rev THEN c.d - end0 ELSE end0
        r == IF c.bounce /\ lp # c.loop0 /\ start = end
             THEN [s |-> S, stop |-> FALSE]
             ELSE RunRangeIn(S, id, 1, start, end,
                             includeStart \/ (lp # c.loop0 /\ ~c.bounce), S.position)
        more == IF c.dir THEN lp + 1 <= c.loop1 ELSE lp - 1 >= c.loop1
        nxt == IF c.dir THEN lp + 1 ELSE lp - 1
    IN  IF r.stop \/ ~more THEN r.s ELSE RunLoopsIn(r.s, id, c, nxt, FALSE)

\* Tween._runActions with callbacks that may move the tween
RunActionsIn(S, id, startRawPos, endRawPos, jump, includeStart) ==
    IF actions = << >> THEN S
    ELSE
    LET d == duration
        zero == d = 0
        l0 == IF zero THEN 0 ELSE Trunc(startRawPos, d)
        l1 == IF zero THEN 0 ELSE Trunc(endRawPos, d)
        ta == IF zero THEN 0 ELSE startRawPos - l0 * d
        tb == IF zero THEN 0 ELSE endRawPos - l1 * d
        past1 == loop # -1 /\ l1 > loop
        past0 == loop # -1 /\ l0 > loop
        t1 == IF past1 THEN d ELSE tb
        loop1 == IF past1 THEN loop ELSE l1
        t0 == IF past0 THEN d ELSE ta
        loop0 == IF past0 THEN loop ELSE l0
    IN  IF jump THEN RunRangeIn(S, id, 1, t1, t1, includeStart, S.position).s
        ELSE IF loop0 = loop1 /\ t0 = t1 /\ ~includeStart THEN S
        ELSE LET first == loop0 = -1
                 c == [d |-> d, reversed |-> IF zero THEN FALSE ELSE reversed,
                       bounce |-> IF zero THEN FALSE ELSE bounce,
                       loop0 |-> IF first THEN 0 ELSE loop0,
                       t0 |-> IF first THEN 0 ELSE t0,
                       loop1 |-> loop1, t1 |-> t1,
                       dir |-> startRawPos <= endRawPos]
             IN  RunLoopsIn(S, id, c, c.loop0, includeStart)

\* A faulty setPosition that dispatches change before it runs the actions
SetPositionIn_ChangeFirst(S, r, ignoreActions, jump) ==
    LET nz == Normalize(r, S.rawPosition, duration, loop, reversed, bounce)
        id == S.calls + 1
        u == _updatePosition(steps, propObjs, S.target, S.passive, nz.t, duration, nz.end)
        S1 == [S EXCEPT !.calls = id, !.position = nz.t, !.rawPosition = nz.raw,
                        !.target = u.target, !.passive = u.passive,
                        !.stepPosition = u.stepPosition,
                        !.writes = @ \cup u.writes,
                        !.events = Append(@, "change"),
                        !.log = @ \o <<Did("update", id, 0, nz.raw),
                                       Did("change", id, 0, -1)>>,
                        !.listing = IF nz.end THEN _register(@, TRUE) ELSE @]
        S2 == IF ignoreActions THEN S1
              ELSE RunActionsIn(S1, id, S.rawPosition, nz.raw, jump,
                                ~jump /\ S.rawPosition = -1)
    IN  IF ~nz.commit THEN [S EXCEPT !.calls = id, !.ret = BoolStr(nz.end)]
        ELSE [S2 EXCEPT !.ret = "undefined",
                        !.events = @ \o (IF nz.end THEN <<"complete">> ELSE << >>),
                        !.log = @ \o (IF nz.end THEN <<Did("complete", id, 0, -1)>>
                                      ELSE << >>)]

\* A faulty setPosition without `if (end) this.paused = true`
SetPositionIn_NoPause(S, r, ignoreActions, jump) ==
    LET nz == Normalize(r, S.rawPosition, duration, loop, reversed, bounce)
        id == S.calls + 1
        u == _updatePosition(steps, propObjs, S.target, S.passive, nz.t, duration, nz.end)
        S1 == [S EXCEPT !.calls = id, !.position = nz.t, !.rawPosition = nz.raw,
                        !.target = u.target, !.passive = u.passive,
                        !.stepPosition = u.stepPosition,
                        !.writes = @ \cup u.writes,
                        !.log = Append(@, Did("update", id, 0, nz.raw))]
        S2 == IF ignoreActions THEN S1
              ELSE RunActionsIn(S1, id, S.rawPosition, nz.raw, jump,
                                ~jump /\ S.rawPosition = -1)
    IN  IF ~nz.commit THEN [S EXCEPT !.calls = id, !.ret = BoolStr(nz.end)]
        ELSE [S2 EXCEPT !.ret = "undefined",
                        !.events = @ \o (IF nz.end THEN <<"change", "complete">>
                                         ELSE <<"change">>),
                        !.log = @ \o (IF nz.end
                                      THEN <<Did("change", id, 0, -1),
                                             Did("complete", id, 0, -1)>>
                                      ELSE <<Did("change", id, 0, -1)>>)]

\* AbstractTween.setPosition(r, ignoreActions, jump) on the tween S
SetPositionIn(S, r, ignoreActions, jump) ==
    LET nz == Normalize(r, S.rawPosition, duration, loop, reversed, bounce)
        id == S.calls + 1
        u == _updatePosition(steps, propObjs, S.target, S.passive, nz.t, duration, nz.end)
        S1 == [S EXCEPT !.calls = id, !.position = nz.t, !.rawPosition = nz.raw,
                        !.target = u.target, !.passive = u.passive,
                        !.stepPosition = u.stepPosition,
                        !.writes = @ \cup u.writes,
                        !.log = Append(@, Did("update", id, 0, nz.raw)),
                        !.listing = IF nz.end THEN _register(@, TRUE) ELSE @]
        S2 == IF ignoreActions THEN S1
              ELSE RunActionsIn(S1, id, S.rawPosition, nz.raw, jump,
                                ~jump /\ S.rawPosition = -1)
    IN  IF ~nz.commit THEN [S EXCEPT !.calls = id, !.ret = BoolStr(nz.end)]
        ELSE [S2 EXCEPT !.ret = "undefined",
                        !.events = @ \o (IF nz.end THEN <<"change", "complete">>
                                         ELSE <<"change">>),
                        !.log = @ \o (IF nz.end
                                      THEN <<Did("change", id, 0, -1),
                                             Did("complete", id, 0, -1)>>
                                      ELSE <<Did("change", id, 0, -1)>>)]

\* tween.setPosition(r, ignoreActions, jump) with such callbacks
setPositionWithCallbacks(r, ignoreActions, jump) ==
    \E S \in {SetPositionIn(Entering, r, ignoreActions, jump)} :
        /\ position' = S.position
        /\ rawPosition' = S.rawPosition
        /\ target' = S.target
        /\ passive' = S.passive
        /\ _stepPosition' = S.stepPosition
        /\ SetListing(S.listing)
        /\ trace' = S.trace
        /\ out' = Result("setPosition", r, rawPosition, ignoreActions, jump, S.ret,
                         [k \in 1..Len(S.trace) |-> S.trace[k].a], S.events, S.writes)
        /\ player' = [player EXCEPT !.log = S.log, !.thrown = ""]
        /\ UNCHANGED <<config, chain, reaction, timeline, ticker>>

\* the callback of one action calls setPosition on its tween
Reactions ==
    {[who |-> w, to |-> r, ia |-> m[1], jump |-> m[2]] :
        w \in 1..MaxActions, r \in 0..MaxGoto, m \in Modes}

CallbackInit ==
    /\ TweenInit
    /\ reaction \in Reactions
    /\ trace = << >>
    /\ player = NewPlayer
    /\ timeline = NewTimeline(0, FALSE, FALSE)
    /\ ticker = IdleTicker

\* The tween is built with to and call, then driven with setPosition.
CallbackNext ==
    \/ \E r \in 0..MaxRaw, jump \in BOOLEAN : setPositionWithCallbacks(r, FALSE, jump)
    \/ \E props \in ToProps, d \in 1..MaxStepDur : rawPosition = -1 /\ to(props, d)
    \/ rawPosition = -1 /\ call

CallbackSpec == CallbackInit /\ [][CallbackNext]_vars

\* ---------------------------------------------------------------- timeline
\* A Timeline T is a record of its fields; T.tweens are its child tweens,
\* records of their own fields.  T.log lists what the last call did, in
\* order: [kind |-> "update"] for a call of a child's setPosition and
\* [kind |-> "action"] for a child's action run, each with the child, the
\* action and `seen`, the positions of all the children at that moment.
\* The callbacks of the children's actions leave the timeline and the
\* children alone.
Seen(T) == [j \in 1..Len(T.tweens) |-> T.tweens[j].position]

\* a child's actions `fired` run
ChildFire(T, i, fired) ==
    [T EXCEPT !.log = @ \o [k \in 1..Len(fired) |->
                              [kind |-> "action", child |-> i, a |-> fired[k],
                               seen |-> Seen(T)]]]

\* AbstractTween.setPosition(r, ignoreActions, jump) on child i
ChildSetPosition(T, i, r, ignoreActions, jump) ==
    LET c == T.tweens[i]
        nz == Normalize(r, c.rawPosition, c.duration, c.loop, c.reversed, c.bounce)
        T0 == [T EXCEPT !.log = Append(@, [kind |-> "update", child |-> i, a |-> 0,
                                           seen |-> Seen(T)])]
        T1 == [T0 EXCEPT !.tweens[i].position = nz.t, !.tweens[i].rawPosition = nz.raw]
        fired == _runActions(c.actions, c.rawPosition, nz.raw, jump,
                             ~jump /\ c.rawPosition = -1,
                             c.duration, c.loop, c.reversed, c.bounce)
    IN  IF ~nz.commit THEN T0
        ELSE IF ignoreActions THEN T1
        ELSE ChildFire(T1, i, fired)

\* the loop over this.tweens of Timeline._updatePosition from child i on
RECURSIVE UpdateChildren(_, _, _, _, _)
UpdateChildren(T, i, t, ignoreActions, jump) ==
    IF i > Len(T.tweens) THEN T
    ELSE UpdateChildren(ChildSetPosition(T, i, t, ignoreActions, jump), i + 1, t,
                        ignoreActions, jump)

\* A faulty Timeline._updatePosition that lets each child run its actions
\* as it is updated: setPosition(t, false, jump)
Timeline_updatePosition_WithActions(T, jump) ==
    UpdateChildren(T, 1, T.position, FALSE, jump)

\* Timeline._updatePosition
Timeline_updatePosition(T, jump) ==
    UpdateChildren(T, 1, T.position, TRUE, jump)

\* Timeline._runActionsRange from child i on: each child's _runActions over
\* the range (the timeline's position does not change under it)
RECURSIVE Timeline_runActionsRange(_, _, _, _, _, _)
Timeline_runActionsRange(T, i, startPos, endPos, jump, includeStart) ==
    IF i > Len(T.tweens) THEN T
    ELSE LET c == T.tweens[i]
             fired == _runActions(c.actions, startPos, endPos, jump, includeStart,
                                  c.duration, c.loop, c.reversed, c.bounce)
         IN  Timeline_runActionsRange(ChildFire(T, i, fired), i + 1, startPos, endPos,
                                      jump, includeStart)

\* the do-while loop of Timeline._runActions from loop index lp on
RECURSIVE TimelineRunLoops(_, _, _, _)
TimelineRunLoops(T, c, lp, includeStart) ==
    LET rev == LoopReversed(c.reversed, c.bounce, lp)
        start0 == IF lp = c.loop0 THEN c.t0 ELSE IF c.dir THEN 0 ELSE c.d
        end0 == IF lp = c.loop1 THEN c.t1 ELSE IF c.dir THEN c.d ELSE 0
        start == IF rev THEN c.d - start0 ELSE start0
        end == IF rev THEN c.d - end0 ELSE end0
        T1 == IF c.bounce /\ lp # c.loop0 /\ start = end THEN T
              ELSE Timeline_runActionsRange(T, 1, start, end, FALSE,
                                            includeStart \/ (lp # c.loop0 /\ ~c.bounce))
        more == IF c.dir THEN lp + 1 <= c.loop1 ELSE lp - 1 >= c.loop1
        nxt == IF c.dir THEN lp + 1 ELSE lp - 1
    IN  IF more THEN TimelineRunLoops(T1, c, nxt, FALSE) ELSE T1

\* Timeline._runActions (this.tweens is an array, so it never returns early)
Timeline_runActions(T, startRawPos, endRawPos, jump, includeStart) ==
    LET d == T.duration
        zero == d = 0
        l0 == IF zero THEN 0 ELSE Trunc(startRawPos, d)
        l1 == IF zero THEN 0 ELSE Trunc(endRawPos, d)
        ta == IF zero THEN 0 ELSE startRawPos - l0 * d
        tb == IF zero THEN 0 ELSE endRawPos - l1 * d
        past1 == T.loop # -1 /\ l1 > T.loop
        past0 == T.loop # -1 /\ l0 > T.loop
        t1 == IF past1 THEN d ELSE tb
        loop1 == IF past1 THEN T.loop ELSE l1
        t0 == IF past0 THEN d ELSE ta
        loop0 == IF past0 THEN T.loop ELSE l0
    IN  IF jump THEN Timeline_runActionsRange(T, 1, t1, t1, jump, includeStart)
        ELSE IF loop0 = loop1 /\ t0 = t1 /\ ~includeStart THEN T
        ELSE LET first == loop0 = -1
                 c == [d |-> d, reversed |-> IF zero THEN FALSE ELSE T.reversed,
                       bounce |-> IF zero THEN FALSE ELSE T.bounce,
                       loop0 |-> IF first THEN 0 ELSE loop0,
                       t0 |-> IF first THEN 0 ELSE t0,
                       loop1 |-> loop1, t1 |-> t1,
                       dir |-> startRawPos <= endRawPos]
             IN  TimelineRunLoops(T, c, c.loop0, includeStart)

\* AbstractTween.setPosition(r, ignoreActions, jump) on the timeline
TimelineSetPosition(T, r, ignoreActions, jump) ==
    LET nz == Normalize(r, T.rawPosition, T.duration, T.loop, T.reversed, T.bounce)
        T1 == [T EXCEPT !.position = nz.t, !.rawPosition = nz.raw]
        T2 == Timeline_updatePosition(T1, jump)
        T3 == [T2 EXCEPT !.paused = IF nz.end THEN TRUE ELSE @]
    IN  IF ~nz.commit THEN T
        ELSE IF ignoreActions THEN T3
        ELSE Timeline_runActions(T3, T.rawPosition, nz.raw, jump,
                                 ~jump /\ T.rawPosition = -1)

\* timeline.setPosition(r, ignoreActions, jump)
Timeline_setPosition(r, ignoreActions, jump) ==
    /\ timeline' = TimelineSetPosition([timeline EXCEPT !.op = "setPosition",
                                                        !.log = << >>],
                                       r, ignoreActions, jump)
    /\ UNCHANGED <<config, chain, playhead, listing, out, reentry, ticker, player>>

\* Timeline.addTween(tween) on the timeline T0: the timeline afterwards
AddTweenTo(T0, tween) ==
    LET n == Len(T0.tweens) + 1
        d == IF tween.loop > 0 THEN tween.duration * (tween.loop + 1)
             ELSE tween.duration
        T == [T0 EXCEPT !.tweens = Append(@, [tween EXCEPT !.paused = TRUE]),
                        !.duration = IF d > @ THEN d ELSE @,
                        !.op = "addTween", !.log = << >>]
    IN  IF T.rawPosition >= 0
        THEN ChildSetPosition(T, n, T.rawPosition, FALSE, FALSE)
        ELSE T

\* timeline.addTween(tween) with a tween just built
addTween(tween) ==
    /\ Len(timeline.tweens) < MaxTweens
    /\ timeline' = AddTweenTo(timeline, tween)
    /\ UNCHANGED <<config, chain, playhead, listing, out, reentry, ticker, player>>

\* new Tween(o, {loop}).to(props, d), with or without one call(f) before or
\* after the to
ChildTweens ==
    UNION {{[duration |-> d, loop |-> lp, reversed |-> FALSE, bounce |-> FALSE,
             actions |-> acts, position |-> 0, rawPosition |-> -1, paused |-> FALSE] :
               lp \in 0..1, acts \in {<< >>, << [t |-> 0] >>, << [t |-> d] >>}} :
           d \in 1..MaxChildDur}

TimelineInit ==
    /\ TweenInit
    /\ loop = 0 /\ ~reversed /\ ~bounce
    /\ reaction = NoReaction
    /\ trace = << >>
    /\ player = NewPlayer
    /\ \E lp \in Loops, rev \in BOOLEAN, bnc \in BOOLEAN :
           timeline = NewTimeline(lp, rev, bnc)
    /\ ticker = IdleTicker

TimelineNext ==
    \/ \E tween \in ChildTweens : addTween(tween)
    \/ \E r \in 0..MaxRaw, m \in Modes : Timeline_setPosition(r, m[1], m[2])

TimelineSpec == TimelineInit /\ [][TimelineNext]_vars

\* the length of a child tween with its loops: d, times loop + 1 if loop > 0
Looped(tween) ==
    IF tween.loop > 0 THEN tween.duration * (tween.loop + 1) ELSE tween.duration

\* Timeline.updateDuration on the timeline T, from child k on
RECURSIVE UpdateDurationFrom(_, _)
UpdateDurationFrom(T, k) ==
    IF k > Len(T.tweens) THEN T
    ELSE UpdateDurationFrom([T EXCEPT !.duration = IF Looped(T.tweens[k]) > @
                                                   THEN Looped(T.tweens[k]) ELSE @],
                            k + 1)

\* timeline.updateDuration()
updateDuration ==
    /\ timeline' = [UpdateDurationFrom([timeline EXCEPT !.duration = 0], 1)
                       EXCEPT !.op = "updateDuration", !.log = << >>]
    /\ UNCHANGED <<config, chain, playhead, listing, out, reentry, ticker, player>>

\* timeline.removeTween(tween), the tween being the i-th child of the
\* timeline, or no child of it when there is no i-th child
removeTween(i) ==
    /\ LET tw == timeline.tweens
           T == [timeline EXCEPT
                    !.tweens = [k \in 1..Len(tw) - 1 |-> IF k < i THEN tw[k] ELSE tw[k + 1]],
                    !.op = "removeTween", !.log = << >>]
       IN  timeline' = IF i > Len(tw)
                       THEN [timeline EXCEPT !.op = "removeTween", !.log = << >>]
                       ELSE IF tw[i].duration >= timeline.duration
                       THEN UpdateDurationFrom([T EXCEPT !.duration = 0], 1)
                       ELSE T
    /\ UNCHANGED <<config, chain, playhead, listing, out, reentry, ticker, player>>

\* Tweens are added to a timeline and removed from it, and the timeline is
\* positioned.
DurationNext ==
    \/ \E tween \in ChildTweens : addTween(tween)
    \/ \E i \in 1..MaxTweens : removeTween(i)
    \/ updateDuration
    \/ \E r \in 0..MaxRaw : Timeline_setPosition(r, TRUE, FALSE)

DurationSpec == TimelineInit /\ [][DurationNext]_vars

\* -------------------------------------------------- chains of to and wait
\* the values target.x starts from
StartValues == {0, 40}

\* new Tween(target, {loop, reversed, bounce}) on a target whose x is one of
\* StartValues
ChainInit ==
    /\ loop \in Loops
    /\ reversed \in BOOLEAN
    /\ bounce \in BOOLEAN
    /\ duration = 0
    /\ position = 0
    /\ rawPosition = -1
    /\ passive = FALSE
    /\ _stepPosition = 0
    /\ steps = << [t |-> 0, d |-> 0, props |-> 1, passive |-> TRUE] >>
    /\ propObjs = << [n \in PropNames |-> Absent] >>
    /\ actions = << >>
    /\ target \in {[n \in PropNames |-> Num(v)] : v \in StartValues}
    /\ _paused = FALSE
    /\ _status = 0
    /\ tweenjs_count = 1
    /\ registry = << Self >>
    /\ out = Quiet("new", 0, "undefined")
    /\ reaction = NoReaction
    /\ trace = << >>
    /\ player = NewPlayer
    /\ timeline = NewTimeline(0, FALSE, FALSE)
    /\ ticker = IdleTicker

\* The chain is built with to and wait, then played, scrubbed and jumped.
ChainNext ==
    \/ \E props \in ToProps, d \in 0..MaxSegDur : rawPosition = -1 /\ to(props, d)
    \/ \E d \in 1..MaxSegDur, psv \in BOOLEAN : rawPosition = -1 /\ wait(d, psv)
    \/ \E r \in 0..MaxRaw, jump \in BOOLEAN : setPosition(r, TRUE, jump)
    \/ \E delta \in Deltas : advance(delta, TRUE)

ChainSpec == ChainInit /\ [][ChainNext]_vars

\* ------------------------------------------------- builder calls at any time
\* the props of a to() call, as far as PropNames goes: a call that sets x, or
\* a call that names other properties only
BuilderProps == ToProps \cup {[n \in PropNames |-> Absent]}

\* new Tween(target) with the default loop, reversed and bounce, on a target
\* whose x is one of StartValues
BuilderInit ==
    /\ ChainInit
    /\ loop = 0 /\ ~reversed /\ ~bounce

\* to, wait and call are made at any time, between position updates too.
BuilderNext ==
    \/ \E props \in BuilderProps, d \in ToDurations : to(props, d)
    \/ \E d \in WaitDurations, psv \in BOOLEAN : wait(d, psv)
    \/ call
    \/ \E r \in 0..MaxRaw, jump \in BOOLEAN : setPosition(r, TRUE, jump)

BuilderSpec == BuilderInit /\ [][BuilderNext]_vars

\* -------------------------------------------------------------------- tick
\* Tween.tick(delta, paused) runs as a walk over the tick list, one
\* iteration of its while loop at a time; `cursor` is the loop's variable
\* `tween`.  The callbacks of the actions a tween runs when it is advanced
\* pause and unpause tweens: `ops` is the sequence of calls
\* `tween.paused = p` they make, a tween pausing itself at its end included;
\* `calls` counts the calls of the setter, MaxOps at most.
PauseOps == [who : Tweens, paused : BOOLEAN]
OpSeqs == UNION {[1..n -> PauseOps] : n \in 0..MaxOps}

RECURSIVE RunOps(_, _, _)
RunOps(K, ops, k) ==
    IF k > Len(ops) THEN K
    ELSE RunOps(SetPausedIn(K, ops[k].who, ops[k].paused), ops, k + 1)

\* A faulty tick that advances every tween by delta
TickAmount_Delta(t, delta) == delta

\* tween.useTicks ? 1 : delta
TickAmount(t, delta) == IF t.useTicks THEN 1 ELSE delta

\* (paused && !tween.ignoreGlobalPause) || tween._paused
Idle(K, x) == (K.paused /\ ~K.tw[x].ignoreGlobalPause) \/ K.tw[x]._paused

\* one iteration of the while loop of Tween.tick
TickVisitIn(K, ops) ==
    LET x == K.cursor
        next == K.tw[x]._next
        status == K.tw[x]._status
        by == IF status = 0 /\ ~Idle(K, x) THEN TickAmount(K.tw[x], K.delta) ELSE 0
        K0 == [K EXCEPT !.tw[x]._lastTick = K._inTick,
                        !.visits = Append(@, [tween |-> x, status |-> status,
                                           paused |-> K.tw[x]._paused, by |-> by])]
        K1 == IF status = 1 THEN [K0 EXCEPT !.tw[x]._status = 0]
              ELSE IF status = -1 THEN _delist(K0, x)
              ELSE IF Idle(K, x) THEN K0
              ELSE RunOps([K0 EXCEPT !.tw[x].moved = (K.tw[x].age # 0)], ops, 1)
    IN  [K1 EXCEPT !.cursor = next]

\* Tween.tick(delta, paused) up to its loop; t is Date.now(), which may be
\* what it was at the tick before.  `ticks` counts the ticks.
TickStart(delta, paused) ==
    /\ ticker._inTick = 0
    /\ ticker.ticks < MaxTicks
    /\ \E t \in {ticker.now, ticker.now + 1} :
           /\ ticker' = [ticker EXCEPT
                  !._inTick = t, !.now = t, !.ticks = @ + 1,
                  !.cursor = ticker._tweenHead,
                  !.delta = delta, !.paused = paused,
                  !.visits = << >>, !.entries = List(ticker), !.touched = {},
                  !.active = {x \in Tweens : Listed(ticker, x)
                                               /\ ticker.tw[x]._status = 0},
                  !.running = {x \in Tweens : ~ticker.tw[x]._paused
                                                /\ ticker.tw[x]._status = 0},
                  !.tw = [x \in Tweens |->
                            [@[x] EXCEPT !.age = IF @ = 3 THEN 0 ELSE @,
                                         !.held = ticker.tw[x].age = 2 /\ paused
                                                  /\ ~ticker.tw[x].ignoreGlobalPause]]]
    /\ UNCHANGED <<config, chain, playhead, listing, out, reentry, timeline, player>>

\* the next iteration of the loop, the tween's callbacks making the calls ops
TickVisit(ops) ==
    /\ ticker._inTick # 0
    /\ ticker.cursor # 0
    /\ Len(ticker.visits) < MaxVisits
    /\ ticker.calls + Len(ops) <= MaxOps
    /\ ops # << >> => (ticker.tw[ticker.cursor]._status = 0 /\ ~Idle(ticker, ticker.cursor))
    /\ ticker' = [TickVisitIn(ticker, ops) EXCEPT !.calls = @ + Len(ops)]
    /\ UNCHANGED <<config, chain, playhead, listing, out, reentry, timeline, player>>

\* the loop is over: Tween._inTick = 0
TickEnd ==
    /\ ticker._inTick # 0
    /\ ticker.cursor = 0
    /\ ticker' = [ticker EXCEPT
           !._inTick = 0,
           !.tw = [x \in Tweens |->
                     [@[x] EXCEPT !.age = IF @ \in {1, 2} THEN @ + 1 ELSE @]]]
    /\ UNCHANGED <<config, chain, playhead, listing, out, reentry, timeline, player>>

\* `tween.paused = p` between two ticks
SetPausedBetweenTicks(x, p) ==
    /\ ticker._inTick = 0
    /\ ticker.tw[x]._paused # p
    /\ ticker.calls < MaxOps
    /\ ticker' = [SetPausedIn(ticker, x, p) EXCEPT !.calls = @ + 1]
    /\ UNCHANGED <<config, chain, playhead, listing, out, reentry, timeline, player>>

\* the props the tweens are constructed with: each may be paused, the first
\* may count in ticks, the second may ignore the global pause
TickerProps ==
    {p \in [Tweens -> [paused : BOOLEAN, useTicks : BOOLEAN,
                       ignoreGlobalPause : BOOLEAN]] :
        \A x \in Tweens : /\ p[x].useTicks => x = 1
                          /\ p[x].ignoreGlobalPause => x = 2}

TickInit ==
    /\ TweenInit
    /\ loop = 0 /\ ~reversed /\ ~bounce
    /\ reaction = NoReaction
    /\ trace = << >>
    /\ player = NewPlayer
    /\ timeline = NewTimeline(0, FALSE, FALSE)
    /\ ticker \in {Constructed(p, NumTweens) : p \in TickerProps}

TickNext ==
    \/ \E delta \in Deltas, paused \in BOOLEAN : TickStart(delta, paused)
    \/ \E ops \in OpSeqs : TickVisit(ops)
    \/ TickEnd
    \/ \E x \in Tweens, p \in BOOLEAN : SetPausedBetweenTicks(x, p)

TickSpec == TickInit /\ [][TickNext]_vars

\* ------------------------------------------------ tweens given to a timeline
\* Timeline.addTween(tween) for the tween x of the tick list: `tween._parent
\* = this` and `tween.paused = true`
AddTweenIn(K, x) == [SetPausedIn(K, x, TRUE) EXCEPT !.tw[x]._parent = 1]

\* the tween handed over, as the timeline sees it: new Tween(o).to(props, 1)
AdoptedTween ==
    [duration |-> 1, loop |-> 0, reversed |-> FALSE, bounce |-> FALSE,
     actions |-> << >>, position |-> 0, rawPosition |-> -1, paused |-> FALSE]

\* timeline.addTween(x) between two ticks
AddTweenBetweenTicks(x) ==
    /\ ticker._inTick = 0
    /\ ticker.tw[x]._parent = 0
    /\ Len(timeline.tweens) < MaxTweens
    /\ ticker' = AddTweenIn(ticker, x)
    /\ timeline' = AddTweenTo(timeline, AdoptedTween)
    /\ UNCHANGED <<config, chain, playhead, listing, out, reentry, player>>

\* an iteration of the tick's loop in which the callbacks of the tween
\* advanced make the calls ops and then timeline.addTween(x)
TickVisitAdding(ops, x) ==
    /\ ticker._inTick # 0
    /\ ticker.cursor # 0
    /\ Len(ticker.visits) < MaxVisits
    /\ ticker.calls + Len(ops) <= MaxOps
    /\ ticker.tw[ticker.cursor]._status = 0 /\ ~Idle(ticker, ticker.cursor)
    /\ ticker.tw[x]._parent = 0
    /\ \A k \in 1..Len(ops) : ticker.tw[ops[k].who]._parent = 0
    /\ Len(timeline.tweens) < MaxTweens
    /\ ticker' = [AddTweenIn(TickVisitIn(ticker, ops), x) EXCEPT !.calls = @ + Len(ops)]
    /\ timeline' = AddTweenTo(timeline, AdoptedTween)
    /\ UNCHANGED <<config, chain, playhead, listing, out, reentry, player>>

\* an iteration whose callbacks leave the tweens of the timeline alone
TickVisitApart(ops) ==
    /\ \A k \in 1..Len(ops) : ticker.tw[ops[k].who]._parent = 0
    /\ TickVisit(ops)

\* three tweens, none counting in ticks or ignoring the global pause
AdoptInit ==
    /\ TickInit
    /\ \A x \in Tweens : ~ticker.tw[x].useTicks /\ ~ticker.tw[x].ignoreGlobalPause

\* Ticks run without a global pause; between ticks and from the callbacks of
\* the tweens advanced, tweens are paused, unpaused and added to the
\* timeline.  Nobody assigns `paused` of a tween the timeline has.
AdoptNext ==
    \/ \E delta \in Deltas : TickStart(delta, FALSE)
    \/ \E ops \in OpSeqs : TickVisitApart(ops)
    \/ \E ops \in OpSeqs, x \in Tweens : TickVisitAdding(ops, x)
    \/ TickEnd
    \/ \E x \in Tweens : AddTweenBetweenTicks(x)

AdoptSpec == AdoptInit /\ [][AdoptNext]_vars

\* ------------------------------------------------------------------ player
\* The tween as a player: it is built with to, call and pause and given
\* labels, then driven with setPosition, gotoAndPlay, gotoAndStop and the
\* setter of paused.  The callbacks of `call` leave the tween alone.
LabelNames == {"first", "second"}
LabelPositions == {1, 3}
Labels == [label : LabelNames, position : LabelPositions]
LabelArrays == UNION {[1..n -> Labels] : n \in 0..MaxLabels}

\* obj.hasOwnProperty(name), obj an object of label positions
Has(obj, name) == \E k \in 1..Len(obj) : obj[k].label = name

\* obj[name] where obj has the property
Get(obj, name) == obj[CHOOSE k \in 1..Len(obj) : obj[k].label = name].position

\* obj[name] = position: a new property comes last in Object.keys(obj)
Put(obj, name, pos) ==
    IF Has(obj, name)
    THEN [k \in 1..Len(obj) |-> IF obj[k].label = name
                                THEN [label |-> name, position |-> pos]
                                ELSE obj[k]]
    ELSE Append(obj, [label |-> name, position |-> pos])

\* list.splice(i, 0, e)
Splice(list, i, e) ==
    [k \in 1..Len(list) + 1 |-> IF k < i THEN list[k]
                                ELSE IF k = i THEN e ELSE list[k - 1]]

\* the getter `labels`: _labelList is an array from construction on, and an
\* array is truthy, so the list is never rebuilt from _labels; the getter
\* returns a copy of _labelList
labels == player._labelList

\* the setter `labels = list`
SetLabelsIn(P, list) ==
    LET RECURSIVE Assign(_, _)
        Assign(obj, k) == IF k > Len(list) THEN obj
                          ELSE Assign(Put(obj, list[k].label, list[k].position), k + 1)
    IN  [P EXCEPT !._labels = Assign(@, 1), !._labelList = << >>]

\* AbstractTween.addLabel(label, position)
addLabelIn(P, label, pos) ==
    LET list == P._labelList
        before == {k \in 1..Len(list) : pos < list[k].position}
        i == IF before = {} THEN Len(list) + 1
             ELSE CHOOSE k \in before : \A j \in before : k <= j
    IN  [P EXCEPT !._labels = Put(@, label, pos),
                  !._labelList = Splice(list, i, [label |-> label, position |-> pos])]

\* the getter `currentLabel`.  `labels.length` is the own property "length"
\* of the object _labels, undefined unless a label has that name, and
\* `i < undefined` is false; labels[i] is undefined for every index i, and
\* `pos < undefined` is false, so the loop never breaks.
currentLabel ==
    LET L == player._labels
        l == IF Has(L, "length") THEN Get(L, "length") ELSE 0
        i == IF l > 0 THEN l ELSE 0
    IN  IF i = 0 THEN "null"
        ELSE IF i <= Len(L) THEN L[i].label
        ELSE "undefined"

\* the arguments of gotoAndPlay and gotoAndStop: a number or a label
GotoArgs ==
    {[isNumber |-> TRUE, n |-> r, label |-> ""] : r \in 0..MaxGoto}
        \cup {[isNumber |-> FALSE, n |-> 0, label |-> l] : l \in LabelNames}

\* AbstractTween.resolve(positionOrLabel)
resolve(L, x) ==
    IF x.isNumber THEN Num(x.n)
    ELSE IF Has(L, x.label) THEN Num(Get(L, x.label))
    ELSE Undef

\* A faulty _goto that moves the tween whatever resolve returns
_goto_Unchecked(S, x) == SetPositionIn(S, resolve(player._labels, x).n, FALSE, TRUE)

\* AbstractTween._goto(positionOrLabel) on the tween S
_goto(S, x) ==
    LET pos == resolve(player._labels, x)
    IN  IF pos.k \notin {"null", "undef"}
        THEN SetPositionIn(S, pos.n, FALSE, TRUE)
        ELSE S

\* the tween takes the fields of S after the call op(x)
Adopt(S, op, x) ==
    /\ position' = S.position
    /\ rawPosition' = S.rawPosition
    /\ target' = S.target
    /\ passive' = S.passive
    /\ _stepPosition' = S.stepPosition
    /\ SetListing(S.listing)
    /\ trace' = S.trace
    /\ out' = Result(op, IF x.isNumber THEN x.n ELSE -1, rawPosition, FALSE, TRUE,
                     "undefined", [k \in 1..Len(S.trace) |-> S.trace[k].a],
                     S.events, S.writes)
    /\ player' = [player EXCEPT !.log = S.log, !.thrown = "", !.arg = x]
    /\ UNCHANGED <<config, chain, reaction, timeline, ticker>>

\* AbstractTween.gotoAndPlay(positionOrLabel)
gotoAndPlay(x) ==
    \E S \in {_goto([Entering EXCEPT !.listing = _register(@, FALSE)], x)} :
        Adopt(S, "gotoAndPlay", x)

\* AbstractTween.gotoAndStop(positionOrLabel)
gotoAndStop(x) ==
    \E S \in {_goto([Entering EXCEPT !.listing = _register(@, TRUE)], x)} :
        Adopt(S, "gotoAndStop", x)

\* tween.addLabel(label, position)
addLabel(label, pos) ==
    /\ Len(player._labelList) < MaxLabels
    /\ player' = addLabelIn(player, label, pos)
    /\ out' = Quiet("addLabel", pos, "undefined")
    /\ UNCHANGED <<config, chain, playhead, listing, reentry, timeline, ticker>>

\* tween.labels = list
SetLabels(list) ==
    /\ player' = SetLabelsIn(player, list)
    /\ out' = Quiet("labels", 0, "undefined")
    /\ UNCHANGED <<config, chain, playhead, listing, reentry, timeline, ticker>>

\* Tween.pause(): _addAction(this, this._set, [{paused: false}])
pause ==
    /\ Len(actions) < MaxActions
    /\ actions' = Append(actions, [t |-> duration, props |-> [paused |-> FALSE]])
    /\ out' = Quiet("pause", 0, 0)
    /\ UNCHANGED <<config, duration, steps, propObjs, playhead, listing, others>>

\* what clone() throws: Tween.clone, Timeline.clone and TweenGroup.clone
Cloning == [Tween |-> "Tween can not be cloned.",
            Timeline |-> "Timeline can not be cloned.",
            TweenGroup |-> "Error: Method not implemented."]

\* A faulty clone that returns a copy of the player
clone_Copying(kind) ==
    /\ player' = [player EXCEPT !.thrown = ""]
    /\ out' = Quiet(kind, 0, "copy")
    /\ UNCHANGED <<config, chain, playhead, listing, reentry, timeline, ticker>>

\* player.clone(), the player a Tween, a Timeline or a TweenGroup: the
\* statement `throw` is all there is to it
clone(kind) ==
    /\ player' = [player EXCEPT !.thrown = Cloning[kind]]
    /\ out' = Quiet(kind, 0, "nothing")
    /\ UNCHANGED <<config, chain, playhead, listing, reentry, timeline, ticker>>

PlayerInit ==
    /\ TweenInit
    /\ ~reversed /\ ~bounce
    /\ reaction = NoReaction
    /\ trace = << >>
    /\ player = NewPlayer
    /\ timeline = NewTimeline(0, FALSE, FALSE)
    /\ ticker = IdleTicker

\* The tween is built with to, call and pause, then driven with
\* setPosition and the setter of paused.
PlayerNext ==
    \/ \E props \in ToProps, d \in 0..MaxStepDur : rawPosition = -1 /\ to(props, d)
    \/ rawPosition = -1 /\ call
    \/ rawPosition = -1 /\ pause
    \/ \E r \in RawInputs, m \in Modes : setPositionWithCallbacks(r, m[1], m[2])
    \/ \E p \in BOOLEAN : SetPaused(p)
    \/ \E kind \in DOMAIN Cloning : clone(kind)

PlayerSpec == PlayerInit /\ [][PlayerNext]_vars

LabelInit ==
    /\ TweenInit
    /\ loop = 0 /\ ~reversed /\ ~bounce
    /\ reaction = NoReaction
    /\ trace = << >>
    /\ player = NewPlayer
    /\ timeline = NewTimeline(0, FALSE, FALSE)
    /\ ticker = IdleTicker

\* The tween is built with one to and with call and given labels, then
\* driven with gotoAndPlay, gotoAndStop and the setter of paused.
LabelNext ==
    \/ \E props \in ToProps : rawPosition = -1 /\ duration = 0 /\ to(props, MaxRaw)
    \/ rawPosition = -1 /\ call
    \/ \E l \in LabelNames, p \in LabelPositions : rawPosition = -1 /\ addLabel(l, p)
    \/ \E list \in LabelArrays : rawPosition = -1 /\ SetLabels(list)
    \/ \E x \in GotoArgs : gotoAndPlay(x)
    \/ \E x \in GotoArgs : gotoAndStop(x)
    \/ \E p \in BOOLEAN : SetPaused(p)

LabelSpec == LabelInit /\ [][LabelNext]_vars

\* ------------------------------------------------------- playing to the end
\* One iteration of Tween.tick(delta, false) on the tween, between the
\* program's calls: the tween is in the tick list with _status 0 and is not
\* paused, so the tick calls tween.advance(delta).  The raw position of a
\* tween with a finite loop count never passes its total length, so the
\* requests stay bounded.
Tick(delta) ==
    /\ registry # << >> /\ _status = 0 /\ ~_paused
    /\ SetPositionAs("tick", rawPosition + delta * timeScale,
                     rawPosition + delta * timeScale, FALSE, FALSE, FALSE)

\* new Tween(target, {loop}) with a finite loop count
PlayInit ==
    /\ PlayerInit
    /\ loop >= 0

\* The tween is built with to and call, then ticked; the program pauses and
\* unpauses it between ticks.
PlayNext ==
    \/ \E props \in ToProps, d \in 0..MaxStepDur : rawPosition = -1 /\ to(props, d)
    \/ rawPosition = -1 /\ call
    \/ \E delta \in 1..MaxDelta : Tick(delta)
    \/ \E p \in BOOLEAN : SetPaused(p)

\* the ticker keeps ticking: a tick that would change something comes
PlaySpec ==
    PlayInit /\ [][PlayNext]_vars /\ WF_vars(\E delta \in 1..MaxDelta : Tick(delta))

\* ---------------------------------------------------- terms of the properties
PositionOps == {"setPosition", "advance"}

\* the last call was a position update that ran the actions of the range it
\* traversed (no jump, actions not ignored)
Traversal(o) == o.op \in PositionOps /\ ~o.jump /\ ~o.ia

\* the last call committed a new position
Committed(o) == o.op \in PositionOps /\ o.events # << >>

\* pass k of the tween runs backward
Back(k) == (reversed /\ ~(bounce /\ k % 2 = 1)) \/ (~reversed /\ bounce /\ k % 2 = 1)

\* the raw position of the tween's final end (finite loop count)
TotalLength == (loop + 1) * duration

\* the request r is at or past the final end
PastEnd(r) == loop # -1 /\ r >= TotalLength

\* the raw position a request r is clamped to
Clamped(r) == IF r < 0 THEN 0
              ELSE IF duration > 0 /\ PastEnd(r) THEN TotalLength ELSE r

\* the final instant of the last pass
FinalInstant == IF Back(loop) THEN 0 ELSE duration

\* how often x occurs in the sequence sq
Count(sq, x) == Cardinality({i \in 1..Len(sq) : sq[i] = x})

\* position is what calculatePosition derives from rawPosition
Derived == position = calculatePosition(rawPosition, duration, loop, reversed, bounce)

\* the raw position a setPosition(r) made at raw position a leaves, and the
\* actions it fires (no jump, actions not ignored)
LandsAt(a, r) ==
    LET nz == Normalize(r, a, duration, loop, reversed, bounce)
    IN  IF nz.commit THEN nz.raw ELSE a

FiredBy(a, r) ==
    LET nz == Normalize(r, a, duration, loop, reversed, bounce)
    IN  IF nz.commit
        THEN _runActions(actions, a, nz.raw, FALSE, a = -1, duration, loop, reversed, bounce)
        ELSE << >>

\* ------------------------------------------------------------ properties
\* C1: forward playback fires the same sequence of actions however the move
\* is split.  The first move of a tween with duration > 0 from its initial
\* state to raw position R, made in one call, fires the sequence of actions
\* that the two calls to m and then to R fire, for every m from 0 to R.
C1_SplitIndependent ==
    [][(Traversal(out') /\ Committed(out') /\ duration > 0 /\ rawPosition = -1)
         => \A m \in 0..rawPosition' :
               FiredBy(-1, m) \o FiredBy(LandsAt(-1, m), rawPosition') = out'.fired]_vars

\* C2: backward scrubbing fires the same sequence of actions however the
\* move is split.  A setPosition that moves a tween with duration > 0 from
\* the raw position a of its last update down to c fires the sequence of
\* actions that the two calls to b and then to c fire, for every c <= b <= a.
C2_BackwardSplitIndependent ==
    [][(Traversal(out') /\ out'.op = "setPosition" /\ Committed(out)
          /\ duration > 0 /\ rawPosition' < rawPosition)
         => \A b \in rawPosition'..rawPosition :
               FiredBy(rawPosition, b) \o FiredBy(LandsAt(rawPosition, b), rawPosition')
                  = out'.fired]_vars

\* C3: an action at the end of the chain fires once, and not again on a
\* no-op call.  On a tween that is not reversed, an update without jump from
\* a raw position before the duration to exactly the duration fires every
\* action scheduled at t = duration exactly once, and a later position
\* update whose request clamps to that same raw position fires nothing; so
\* with duration 1000 the action at 1000 fires once from 900 to 1000, and
\* setPosition(1000) or setPosition(1500) then commits nothing.
C3_EndActionFiresOnce ==
    /\ _runActions(<< [t |-> 1000] >>, 900, 1000, FALSE, FALSE, 1000, 0, FALSE, FALSE) = << 1 >>
    /\ ~Normalize(1000, 1000, 1000, 0, FALSE, FALSE).commit
    /\ ~Normalize(1500, 1000, 1000, 0, FALSE, FALSE).commit
    /\ [][/\ (Traversal(out') /\ ~reversed /\ duration > 0
                /\ rawPosition < duration /\ rawPosition' = duration)
               => \A i \in 1..Len(actions) :
                     actions[i].t = duration => Count(out'.fired, i) = 1
          /\ (out'.op \in PositionOps /\ ~reversed /\ duration > 0
                /\ rawPosition = duration /\ Clamped(out'.req) = duration)
               => out'.fired = << >>]_vars

\* an advance to exactly the duration has fired the action scheduled there
C3_Witness ==
    /\ Traversal(out) /\ out.op = "advance" /\ ~reversed /\ duration > 0
    /\ out.from >= 0 /\ out.from < duration /\ rawPosition = duration
    /\ \E i \in 1..Len(actions) : actions[i].t = duration /\ Count(out.fired, i) = 1

\* C4: a setPosition to the current raw position is a no-op.  A position
\* update whose clamped request equals rawPosition writes no property, fires
\* no action, emits no event, and leaves position, rawPosition, the paused
\* flag and everything else of the tween unchanged.
C4_SamePositionNoOp ==
    [][(out'.op \in PositionOps /\ Clamped(out'.req) = rawPosition)
         => /\ out'.writes = {} /\ out'.fired = << >> /\ out'.events = << >>
            /\ UNCHANGED <<config, chain, playhead, listing>>]_vars

\* a setPosition to the current raw position of a started tween with actions
C4_Witness ==
    /\ out.op = "setPosition" /\ duration > 0 /\ actions # << >>
    /\ out.from > 0 /\ Clamped(out.req) = out.from /\ rawPosition = out.from
    /\ out.events = << >>

\* C5: a request past the end reaches the end.  With a finite loop count
\* and duration > 0, every setPosition(r) with r at or past
\* (loop + 1) * duration leaves rawPosition at (loop + 1) * duration and
\* position at the final instant of the last pass.
C5_PastEndReachesEnd ==
    [][(out'.op = "setPosition" /\ duration > 0 /\ PastEnd(out'.req))
         => rawPosition' = TotalLength /\ position' = FinalInstant]_vars

\* C6: calculatePosition folds by loop parity.  For a tween with
\* duration > 0, calculatePosition(r) for r >= 0 returns t when pass k runs
\* forward and duration - t when it runs backward, k and t being the loop
\* index and in-pass time of r (the last pass and the duration once r is at
\* or past the final end), a pass running backward exactly when reversed
\* differs from (bounce and k odd); with duration 1000 and bounce alone,
\* calculatePosition(1500) is 500 and calculatePosition(1200) is 800.
C6_FoldsByParity ==
    /\ calculatePosition(1500, 1000, -1, FALSE, TRUE) = 500
    /\ calculatePosition(1200, 1000, -1, FALSE, TRUE) = 800
    /\ calculatePosition(1200, 1000, -1, FALSE, FALSE) = 200
    /\ calculatePosition(1200, 1000, -1, TRUE, TRUE) = 200
    /\ (out.op = "calculatePosition" /\ out.req >= 0 /\ duration > 0)
         => LET k == IF PastEnd(out.req) THEN loop ELSE out.req \div duration
                t == IF PastEnd(out.req) THEN duration ELSE out.req % duration
            IN  out.ret = IF Back(k) THEN duration - t ELSE t

\* calculatePosition of a raw position on an odd pass of a bouncing tween
C6_Witness ==
    /\ out.op = "calculatePosition" /\ bounce /\ ~reversed /\ duration = 2
    /\ ~PastEnd(out.req) /\ out.req = 2 /\ out.ret = 2

\* C7: calculatePosition is pure.  A call changes nothing of the tween
\* (configuration, chain, position, rawPosition, target, paused flag,
\* registry), fires no action, emits no event, writes no property, and its
\* result is a function of the argument, duration, loop, reversed and bounce
\* alone.
C7_CalculatePositionPure ==
    [][out'.op = "calculatePosition"
         => /\ UNCHANGED <<config, chain, playhead, listing>>
            /\ out'.fired = << >> /\ out'.events = << >> /\ out'.writes = {}
            /\ out'.ret = calculatePosition(out'.req, duration, loop, reversed, bounce)]_vars

\* calculatePosition was asked about a raw position other than the current
\* one, and answered something else than the cached position
C7_Witness ==
    /\ out.op = "calculatePosition" /\ duration > 0 /\ rawPosition > 0
    /\ out.req >= 0 /\ out.req # rawPosition /\ out.ret # position

\* C8 as stated: in every reachable state position is what
\* calculatePosition derives from rawPosition.
C8_PositionDerived == Derived

\* C8 as the code has it: every position update that commits leaves position
\* equal to what calculatePosition derives from the new rawPosition, and
\* position stays so through every call that leaves the duration as it is;
\* a builder call that changes the duration does not refresh position.
C8_PositionDerivedOnCommit ==
    [][/\ Committed(out') /\ out' # out => Derived'
       /\ (Derived /\ duration' = duration) => Derived']_vars

\* a committed update of a reversed tween to its first instant
C8_Witness ==
    /\ Committed(out) /\ reversed /\ ~bounce /\ duration > 0
    /\ rawPosition = 0 /\ position = duration /\ Derived

\* C9 as stated: a raw position k * duration, k >= 1, short of the final
\* end is placed at the final instant of pass k - 1.
C9_BoundaryInEarlierPass ==
    (Committed(out) /\ duration > 0 /\ rawPosition >= duration
       /\ rawPosition % duration = 0 /\ ~PastEnd(rawPosition))
      => position = IF Back(rawPosition \div duration - 1) THEN 0 ELSE duration

\* C9 as the code has it: a raw position k * duration, k >= 1, short of the
\* final end is placed at the zero instant of pass k: position is 0 when
\* pass k runs forward and the duration when it runs backward, from
\* setPosition and from calculatePosition alike.
C9_BoundaryInNextPass ==
    /\ (Committed(out) /\ duration > 0 /\ rawPosition >= duration
          /\ rawPosition % duration = 0 /\ ~PastEnd(rawPosition))
         => position = IF Back(rawPosition \div duration) THEN duration ELSE 0
    /\ (out.op = "calculatePosition" /\ duration > 0 /\ out.req >= duration
          /\ out.req % duration = 0 /\ ~PastEnd(out.req))
         => out.ret = IF Back(out.req \div duration) THEN duration ELSE 0

\* a forward looping tween set to the boundary between its passes 0 and 1
C9_Witness ==
    /\ Committed(out) /\ ~reversed /\ ~bounce /\ duration = 2
    /\ rawPosition = 2 /\ ~PastEnd(rawPosition) /\ position = 0

\* C10: setPosition returns the end flag on every call: true when the tween
\* is at its final end (a tween of duration 0 always is), false otherwise.
C10_ReturnsEnd ==
    out.op = "setPosition"
      => out.ret = BoolStr(duration = 0 \/ (PastEnd(rawPosition)))

\* the actions scheduled at the instant p
ScheduledAt(p) == {i \in 1..Len(actions) : actions[i].t = p}

\* the set of the elements of the sequence sq
Range(sq) == {sq[i] : i \in 1..Len(sq)}

\* C11: a jump fires exactly the actions at the destination.  After a
\* position update with jump = true that commits (actions not ignored), the
\* actions fired are those whose time equals the resulting position, for
\* every reversed, bounce and loop setting.
C11_JumpFiresDestination ==
    (out.op \in PositionOps /\ out.jump /\ ~out.ia /\ Committed(out))
      => Range(out.fired) = ScheduledAt(position)

\* the actions call `id` of setPosition ran itself, in order
RanIn(id) == SelectSeq(trace, LAMBDA e : e.call = id)

\* C12: an action that moves the tween ends the traversal that ran it.  In
\* every call of setPosition, nested ones included, an action whose callback
\* left position different from what it was is the last action that call
\* runs: the rest of its pass and all later passes of that call are skipped.
C12_MoveEndsTraversal ==
    \A j \in 1..Len(trace), k \in 1..Len(trace) :
        (j < k /\ trace[j].call = trace[k].call) => ~trace[j].moved

\* a call whose first action moved the tween and which, left alone, would
\* have gone on to run further actions
C12_Witness ==
    /\ out.op = "setPosition" /\ ~out.jump /\ Len(RanIn(1)) = 1
    /\ RanIn(1)[1].moved
    /\ Len(_runActions(actions, out.from, Clamped(out.req), FALSE, out.from = -1,
                       duration, loop, reversed, bounce)) > 1

\* where child c is shown when its timeline is at position t
ShownAt(c, t) == calculatePosition(t, c.duration, c.loop, c.reversed, c.bounce)

\* C13: a timeline updates all its children before any child's action runs.
\* In the log of a setPosition on the timeline no child's setPosition comes
\* after a child's action, and every action sees every child at the position
\* that child has for the timeline's new position.
C13_ChildrenUpdatedBeforeActions ==
    timeline.op = "setPosition" =>
        /\ \A j \in 1..Len(timeline.log), k \in 1..Len(timeline.log) :
               (j < k /\ timeline.log[j].kind = "action")
                 => timeline.log[k].kind = "action"
        /\ \A k \in 1..Len(timeline.log) :
               timeline.log[k].kind = "action"
                 => \A j \in 1..Len(timeline.tweens) :
                        timeline.log[k].seen[j]
                          = ShownAt(timeline.tweens[j], timeline.position)

\* an action of the first child runs in an update that moved the second child
C13_Witness ==
    /\ timeline.op = "setPosition"
    /\ Len(timeline.tweens) = 2
    /\ \E k \in 1..Len(timeline.log) :
           /\ timeline.log[k].kind = "action"
           /\ timeline.log[k].child = 1
    /\ \E k \in 1..Len(timeline.log) :
           /\ timeline.log[k].kind = "update"
           /\ timeline.log[k].child = 2
           /\ timeline.log[k].seen[2] # timeline.tweens[2].position

\* the chain is one `to` step (a step with a props object of its own) of a
\* duration above 0
SingleTo == Len(steps) = 2 /\ steps[2].props # steps[1].props /\ steps[2].d > 0

\* v0 + (v1 - v0) * p / D as an exact rational
Linear(v0, v1, p, D) == Rat(v0 * D + (v1 - v0) * p, D)

\* C14: a single linear `to` step interpolates linearly.  For a chain of one
\* to({x: v1}, D), D > 0, on a target whose x was the number v0, the step
\* starts from v0, and every position update writes
\* x = v0 + (v1 - v0) * position / D.
C14_LinearInterpolation ==
    SingleTo =>
        /\ rawPosition = -1 => propObjs[steps[1].props]["x"] = target["x"]
        /\ (out.op \in PositionOps /\ Committed(out)) =>
               /\ "x" \in out.writes
               /\ target["x"] = Linear(propObjs[steps[1].props]["x"].n,
                                       propObjs[steps[2].props]["x"].n,
                                       position, steps[2].d)

\* x from 40 to 100 over 2 is 70 at position 1
C14_Witness ==
    /\ SingleTo /\ steps[2].d = 2
    /\ out.op \in PositionOps /\ Committed(out)
    /\ position = 1
    /\ propObjs[steps[1].props]["x"] = Num(40)
    /\ target["x"] = Num(70)

\* step i is the step position p lies in: the last step that has started
InStep(i, p) ==
    /\ i \in 2..Len(steps)
    /\ steps[i].t <= p
    /\ (i = Len(steps) \/ p < steps[i + 1].t)

\* the position lies inside a passive step
InsidePassive == \E i \in 2..Len(steps) : InStep(i, position) /\ steps[i].passive

\* C15: a position update that lands inside a passive step writes nothing.
\* After every setPosition, jump or advance that committed a position inside
\* a passive step, the end of the tween included, no property of the target
\* has been assigned.
C15_PassiveWritesNothing ==
    (out.op \in PositionOps /\ Committed(out) /\ InsidePassive) => out.writes = {}

\* an update from inside a `to` step into the passive wait after it
C15_Witness ==
    /\ out.op \in PositionOps /\ Committed(out) /\ InsidePassive
    /\ Len(steps) = 3 /\ steps[2].props # steps[1].props /\ InStep(3, position)
    /\ out.from >= 0

\* C16 as stated: inside a passive wait the target holds the values of the
\* end of the step before the wait, however the position was reached.
C16_HoldsEndOfPreviousStep ==
    \A i \in 2..Len(steps) :
        (rawPosition # -1 /\ InStep(i, position) /\ steps[i].passive)
          => \A n \in PropNames :
                 propObjs[steps[i].props][n].k # "absent"
                   => target[n] = propObjs[steps[i].props][n]

\* C16: an update that lands inside a passive wait leaves the target's
\* properties as they were before the update; they are the values of the end
\* of the step before the wait only if an earlier update had written those.
C16_HoldsValuesBeforeUpdate ==
    [][(out'.op \in PositionOps /\ InsidePassive') => target' = target]_vars

\* a jump from the start into the passive wait after a `to` step: x keeps
\* its starting value, not the value the `to` step ends on
C16_Witness ==
    /\ out.op = "setPosition" /\ out.jump /\ Committed(out) /\ out.from = -1
    /\ Len(steps) = 3 /\ steps[2].props # steps[1].props /\ steps[3].passive
    /\ InStep(3, position)
    /\ target["x"] # propObjs[steps[3].props]["x"]

\* how often the tick in progress or just over advanced tween x
Advances(K, x) ==
    Cardinality({k \in 1..Len(K.visits) : K.visits[k].tween = x /\ K.visits[k].by > 0})

\* x was in the list when the tick began, nothing paused or unpaused it
\* since, and neither its own pause nor the global one holds it
StaysUnpaused(K, x) ==
    /\ \E i \in 1..Len(K.entries) : K.entries[i] = x
    /\ x \notin K.touched
    /\ ~K.tw[x]._paused
    /\ ~(K.paused /\ ~K.tw[x].ignoreGlobalPause)

\* a tick has run to its end
TickOver(K) == K._inTick = 0 /\ K.ticks > 0

\* C17: pausing and unpausing from actions during a tick never corrupts the
\* tick list or its traversal.  The list stays a well-formed doubly linked
\* list, no tween is advanced more than once in a tick, and a tick that has
\* ended has advanced every tween that stayed unpaused.
C17_TickListIntact ==
    /\ WellFormed(ticker)
    /\ \A x \in Tweens : Advances(ticker, x) <= 1
    /\ TickOver(ticker) =>
           \A x \in Tweens : StaysUnpaused(ticker, x) => Advances(ticker, x) = 1

\* C18: a tween unpaused during a tick waits for the next tick and no
\* longer.  It is not advanced in the tick that registered it, and once the
\* tick after that one is over it has been advanced, unless it was paused
\* again or a global pause held it.
C18_AdvancedByNextTick ==
    \A x \in Tweens :
        /\ ticker.tw[x].age = 1 => ~ticker.tw[x].moved
        /\ (ticker.tw[x].age = 3 /\ ~ticker.tw[x].held) => ticker.tw[x].moved

\* C19 as stated: a tween paused during a tick is unlinked at once when the
\* tick has not visited it yet, and left in the list, marked for removal,
\* when it has.
C19_UnvisitedUnlinkedAtOnce ==
    ticker.lastPause.inTick =>
        /\ ~ticker.lastPause.visited => ~ticker.lastPause.listed
        /\ ticker.lastPause.visited =>
               (ticker.lastPause.listed /\ ticker.lastPause.status = -1)

\* C19: it is the other way round.  A tween paused during a tick is
\* delisted at once when its _lastTick is the tick's id, as it is for every
\* tween the tick has visited: its links are cleared, and it is out of a list
\* that was well-formed.  Otherwise no link changes: the tween keeps its
\* place with _status -1, for the tick to delist when it reaches it.
C19_VisitedUnlinkedAtOnce ==
    ticker.lastPause.inTick =>
        /\ ticker.lastPause.status = -1
        /\ ticker.lastPause.visited => ticker.lastPause.stamped
        /\ ticker.lastPause.stamped =>
               /\ ticker.lastPause.cleared
               /\ ticker.lastPause.intact => ~ticker.lastPause.listed
        /\ ~ticker.lastPause.stamped =>
               /\ ticker.lastPause.kept
               /\ ticker.lastPause.listed = ticker.lastPause.before

\* in one tick a tween not yet visited has been paused and stays listed
C19_Witness ==
    /\ ticker._inTick # 0
    /\ ticker.lastPause.inTick
    /\ ~ticker.lastPause.visited
    /\ ticker.lastPause.before
    /\ ticker.lastPause.listed
    /\ ticker.tw[ticker.lastPause.who]._status = -1
    /\ ticker.cursor = ticker.lastPause.who

\* the global pause does not hold tween x
Exempt(K, x) == K.paused => K.tw[x].ignoreGlobalPause

\* what the tick owes an entry it reads as `status` and `paused`: delta, or
\* 1 for a tween that counts in ticks, and nothing when the entry is not
\* active, is paused, or is held by the global pause
Owed(K, x, status, paused) ==
    IF status = 0 /\ ~paused /\ Exempt(K, x)
    THEN (IF K.tw[x].useTicks THEN 1 ELSE K.delta)
    ELSE 0

\* C20: the tick advances each active entry by delta, or by 1 when the tween
\* counts in ticks, and advances no entry that is paused or that the global
\* pause holds, while a tween with ignoreGlobalPause is advanced under a
\* global pause.  Every iteration of the tick advances by what is owed, and
\* a tick without pausing or unpausing over a well-formed list has, at its
\* end, advanced each entry that was active once or not at all, as owed.
C20_AdvancesByDeltaOrOne ==
    /\ \A k \in 1..Len(ticker.visits) :
           ticker.visits[k].by = Owed(ticker, ticker.visits[k].tween,
                                      ticker.visits[k].status, ticker.visits[k].paused)
    /\ (TickOver(ticker) /\ ticker.touched = {} /\ WellFormed(ticker)) =>
           \A x \in ticker.active :
               Advances(ticker, x)
                 = (IF Owed(ticker, x, 0, ticker.tw[x]._paused) > 0 THEN 1 ELSE 0)

\* a tick under a global pause over a tween that counts in ticks and a tween
\* that ignores the global pause: the first was held, the second advanced by
\* delta, which is not 1
C20_Witness ==
    /\ TickOver(ticker) /\ ticker.paused /\ ticker.delta = MaxDelta
    /\ ticker.touched = {}
    /\ \E j \in 1..Len(ticker.visits), k \in 1..Len(ticker.visits) :
           /\ ticker.visits[j].tween = 1 /\ ticker.tw[1].useTicks
           /\ ticker.visits[j].status = 0 /\ ticker.visits[j].by = 0
           /\ ticker.visits[k].tween = 2 /\ ticker.tw[2].ignoreGlobalPause
           /\ ticker.visits[k].by = MaxDelta

Passed == {k \in 1..Len(player._labels) : player._labels[k].position <= position}

\* C25: currentLabel is the label with the greatest position at or before
\* the current position, and null when no label is at or before it.
C25_CurrentLabelIsLastPassed ==
    IF Passed = {} THEN currentLabel = "null"
    ELSE \E k \in Passed :
             /\ \A j \in Passed :
                    player._labels[j].position <= player._labels[k].position
             /\ currentLabel = player._labels[k].label

\* one entry per defined label, with its current position
OnePerLabel(list) ==
    /\ Len(list) = Len(player._labels)
    /\ \A k \in 1..Len(player._labels) :
           \E j \in 1..Len(list) : list[j] = player._labels[k]

\* ascending by position
Ascending(list) ==
    \A j \in 1..Len(list), k \in 1..Len(list) :
        j < k => list[j].position <= list[k].position

\* C26: whatever addLabel calls and labels assignments were made, the labels
\* getter returns exactly the labels currently defined, one entry per name
\* with its current position, sorted ascending by position.
C26_LabelsListsDefinedSorted == OnePerLabel(labels) /\ Ascending(labels)

\* the step is a call of gotoAndPlay or gotoAndStop with a label that is
\* not defined
UndefinedGoto ==
    /\ out'.op \in {"gotoAndPlay", "gotoAndStop"}
    /\ ~player'.arg.isNumber
    /\ ~Has(player._labels, player'.arg.label)

\* the step moves nothing, runs no action and dispatches no event
NothingMoved ==
    /\ position' = position
    /\ rawPosition' = rawPosition
    /\ target' = target
    /\ out'.fired = << >>
    /\ out'.events = << >>
    /\ player'.log = << >>

\* C27 as claimed: gotoAndPlay and gotoAndStop with an undefined label are
\* no-ops: position, rawPosition, paused and the registry stay as they
\* were, no action runs and no event is dispatched.
C27_UndefinedLabelIsNoOp ==
    [][UndefinedGoto => (NothingMoved /\ _paused' = _paused /\ registry' = registry)]_vars

\* C27: gotoAndPlay and gotoAndStop with an undefined label move nothing,
\* run no action and dispatch no event, but they do set paused first:
\* gotoAndPlay leaves the tween unpaused and registered, gotoAndStop leaves
\* it paused and out of the registry.
C27_UndefinedLabelOnlySetsPaused ==
    [][UndefinedGoto =>
          /\ NothingMoved
          /\ _paused' = (out'.op = "gotoAndStop")
          /\ registry' = _register(Listing, out'.op = "gotoAndStop").registry
          /\ (Self \in {registry'[k] : k \in 1..Len(registry')}) = ~_paused']_vars

C27_Witness ==
    /\ out.op = "gotoAndStop"
    /\ ~player.arg.isNumber
    /\ ~Has(player._labels, player.arg.label)
    /\ player._labels # << >>
    /\ actions # << >>
    /\ rawPosition > 0
    /\ _paused
    /\ registry = << >>

\* the step is a call of setPosition
SetPositionStep == out'.op = "setPosition"

\* an action of the call just made set the tween's paused
SetsPaused(fired) == \E k \in 1..Len(fired) : "props" \in DOMAIN actions[fired[k]]

\* the tween is in the registry
Registered == \E k \in 1..Len(registry) : registry[k] = Self

ReachedEnd(o) ==
    /\ o.op = "setPosition"
    /\ (o.ret = "true" \/ \E k \in 1..Len(o.events) : o.events[k] = "complete")

Entries(kind, c) ==
    {k \in 1..Len(player.log) : player.log[k].kind = kind /\ player.log[k].call = c}

\* the calls of setPosition that did anything
LoggedCalls == {player.log[k].call : k \in 1..Len(player.log)}

\* the raw position is the end of the tween: its last pass is over, or the
\* tween has no length
EndOfTraversal(raw) == duration = 0 \/ PastEnd(raw)

\* C23: every call of setPosition that commits a new raw position updates
\* the properties once and dispatches exactly one change, after the update
\* and after every action the call ran; it dispatches complete, once and
\* after change, exactly when the position it set is the end of the tween;
\* a call that commits nothing leaves no trace at all.
C23_ChangeThenComplete ==
    \A c \in LoggedCalls :
        \E u \in Entries("update", c), g \in Entries("change", c) :
            /\ Entries("update", c) = {u}
            /\ Entries("change", c) = {g}
            /\ u < g
            /\ \A a \in Entries("action", c) : u < a /\ a < g
            /\ \A e \in Entries("complete", c) : g < e
            /\ Cardinality(Entries("complete", c)) =
                   IF EndOfTraversal(player.log[u].raw) THEN 1 ELSE 0

C23_Witness ==
    /\ Cardinality(LoggedCalls) = 2
    /\ \E c \in LoggedCalls :
           /\ Entries("complete", c) # {}
           /\ Entries("action", c) # {}
    /\ \E c \in LoggedCalls : Entries("complete", c) = {}
    /\ duration > 0

\* the step is a call of clone
CloneStep == out'.op \in DOMAIN Cloning

\* C28: clone() of a Tween, a Timeline or a TweenGroup always throws and
\* returns nothing, and it leaves the player as it was.
C28_CloneThrows ==
    [][CloneStep =>
          /\ player'.thrown # ""
          /\ out'.ret = "nothing"
          /\ UNCHANGED <<config, chain, playhead, listing, timeline, ticker>>
          /\ player'._labels = player._labels
          /\ player'._labelList = player._labelList]_vars

C28_Witness ==
    /\ out.op = "TweenGroup"
    /\ player.thrown = "Error: Method not implemented."
    /\ rawPosition > 0
    /\ actions # << >>

\* C29: the action added by pause() pauses the tween when it runs: after a
\* call of setPosition that ran such an action the tween is paused and out
\* of the registry, so that no tick advances it.
C29_PauseActionPauses ==
    (out.op = "setPosition" /\ SetsPaused(out.fired)) => (_paused /\ ~Registered)

\* the longest child of the timeline with its loops, 0 without children
LongestChild ==
    LET lens == {Looped(timeline.tweens[k]) : k \in 1..Len(timeline.tweens)}
    IN  IF lens = {} THEN 0 ELSE CHOOSE m \in lens : \A n \in lens : n <= m

\* C30: after any sequence of addTween and removeTween the duration of a
\* timeline is the greatest, over its children, of the child's duration
\* times its loop count plus one, and 0 when it has no children.
C30_DurationIsLongestChild ==
    timeline.op \in {"new", "addTween", "removeTween"}
        => timeline.duration = LongestChild

\* the last call was a setPosition on a fresh tween (rawPosition -1) that
\* committed the position
FreshCommit == out.op = "setPosition" /\ out.from = -1 /\ Committed(out)

\* C39: setPosition and calculatePosition normalise alike: a setPosition(r)
\* that commits on a fresh tween leaves position = calculatePosition(r),
\* whatever r, duration, loop, reversed and bounce are.
C39_SetPositionAgreesWithCalculate ==
    FreshCommit =>
        position = calculatePosition(out.req, duration, loop, reversed, bounce)

C39_Witness ==
    /\ FreshCommit
    /\ out.req > TotalLength
    /\ duration > 0
    /\ loop = 1
    /\ bounce
    /\ position = 0

\* C34: rawPosition is -1 until the first position update, and afterwards,
\* when the loop count is finite, it lies between 0 and the total length of
\* the tween, (loop + 1) * duration, tweens of duration 0 included.
C34_RawPositionWithinLength ==
    /\ out.op = "new" => rawPosition = -1
    /\ rawPosition = -1 \/ rawPosition >= 0
    /\ (rawPosition # -1 /\ loop # -1) => rawPosition <= TotalLength

\* C33: in every reachable state the normalised position of a player, the
\* tween, the timeline and each of its children, lies between 0 and the
\* player's current duration, inclusive.
C33_PositionWithinDuration ==
    /\ 0 <= position /\ position <= duration
    /\ 0 <= timeline.position /\ timeline.position <= timeline.duration
    /\ \A k \in 1..Len(timeline.tweens) :
           /\ 0 <= timeline.tweens[k].position
           /\ timeline.tweens[k].position <= timeline.tweens[k].duration


\* the sum of the durations of the steps st[1..k]
RECURSIVE StepDurations(_, _)
StepDurations(st, k) == IF k = 0 THEN 0 ELSE StepDurations(st, k - 1) + st[k].d

\* every step starts where the step before it ends, no step has a negative
\* duration, the tween's duration is the sum of the steps' durations, and
\* the actions are in the order of their times
Contiguous ==
    /\ \A k \in 1..Len(steps) : steps[k].d >= 0
    /\ \A k \in 1..(Len(steps) - 1) :
           /\ steps[k + 1].t = steps[k].t + steps[k].d
           /\ steps[k + 1].t >= steps[k].t
    /\ duration = StepDurations(steps, Len(steps))
    /\ \A k \in 1..(Len(actions) - 1) : actions[k].t <= actions[k + 1].t

\* a step keeps the steps and the actions there were and appends at most one
\* of either, an action at the duration of the moment; the duration does not
\* go down
AppendOnly ==
    /\ duration' >= duration
    /\ Len(steps') \in {Len(steps), Len(steps) + 1}
    /\ \A k \in 1..Len(steps) :
           /\ steps'[k].t = steps[k].t
           /\ steps'[k].d = steps[k].d
    /\ Len(actions') \in {Len(actions), Len(actions) + 1}
    /\ SubSeq(actions', 1, Len(actions)) = actions
    /\ Len(actions') > Len(actions) => actions'[Len(actions')].t = duration

\* C37: the step chain is contiguous and append-only.  In every state each
\* step's offset is the offset plus the duration of the step before it, no
\* step has a negative duration, the tween's duration is the sum of the step
\* durations and the action list is in non-decreasing order of time; every
\* call keeps the steps and actions there were, never lowers the duration,
\* and gives a new action the duration at the time it is added.
C37_ChainContiguousAppendOnly == []Contiguous /\ [][AppendOnly]_vars

\* a call, a step of duration 1, a to whose duration is 0 or was clamped to
\* 0, and a second call: the zero-length step and the second action at 1
C37_Witness ==
    /\ Len(steps) = 3 /\ steps[2].d = 1 /\ steps[3].d = 0 /\ steps[3].t = 1
    /\ duration = 1
    /\ Len(actions) = 2 /\ actions[1].t = 0 /\ actions[2].t = 1
    /\ out.op = "call"

\* step i was made by wait: it shares the props object of the step before it
WaitStep(i) == i \in 2..Len(steps) /\ steps[i].props = steps[i - 1].props

\* the step a committed position update landed in is the wait step i
LandedInWait(i) ==
    /\ out.op \in PositionOps /\ Committed(out)
    /\ WaitStep(i) /\ InStep(i, position)

\* what a call wait(D, passive) does to the chain: nothing for D <= 0, and
\* for D > 0 one step of duration D at the end, on the props object of the
\* step before it
WaitAppends ==
    out'.op = "wait" =>
        /\ propObjs' = propObjs
        /\ IF out'.req > 0
           THEN /\ Len(steps') = Len(steps) + 1
                /\ SubSeq(steps', 1, Len(steps)) = steps
                /\ steps'[Len(steps')].t = duration
                /\ steps'[Len(steps')].d = out'.req
                /\ steps'[Len(steps')].props = steps[Len(steps)].props
                /\ duration' = duration + out'.req
           ELSE steps' = steps /\ duration' = duration

\* C38 as stated: every step made by wait is passive, and an update that
\* lands in it writes no property of the target.
C38_WaitIsPassive ==
    \A i \in 2..Len(steps) :
        /\ WaitStep(i) => steps[i].passive
        /\ LandedInWait(i) => out.writes = {}

\* C38: wait(D, passive) with D > 0 appends exactly one step of duration D
\* that shares the props object of the step before it, so it brings no new
\* values; the step is passive only if the call asked for it.  An update
\* that lands in a passive wait writes nothing; one that lands in a wait
\* that is not passive writes, for every property of the shared props
\* object, the value held there.
C38_WaitSharesProps ==
    /\ [][WaitAppends]_vars
    /\ [](\A i \in 2..Len(steps) :
              LandedInWait(i) =>
                  IF steps[i].passive THEN out.writes = {}
                  ELSE /\ out.writes = {n \in PropNames :
                                           propObjs[steps[i].props][n].k # "absent"}
                       /\ \A n \in out.writes :
                              target[n] = propObjs[steps[i].props][n])

\* to({x: 100}, 1) and a wait of 1 that is not passive, on a target whose x
\* was 40: the jump from the start to position 1 writes x = 100
C38_Witness ==
    /\ Len(steps) = 3 /\ ~WaitStep(2) /\ WaitStep(3) /\ ~steps[3].passive
    /\ steps[2].d = 1 /\ steps[3].d = 1
    /\ propObjs[steps[1].props]["x"] = Num(40)
    /\ LandedInWait(3) /\ out.from = -1
    /\ "x" \in out.writes /\ target["x"] = Num(100)

\* the value step k holds for property n
Held(k, n) == propObjs[steps[k].props][n]

\* C35: after any sequence of to and wait calls every step, the head
\* included, defines a value for every property that any to call mentioned:
\* a property some step holds a value for is held by every step.
C35_EveryStepDefinesEveryProperty ==
    \A n \in PropNames :
        (\E k \in 1..Len(steps) : IsDefined(Held(k, n)))
            => \A k \in 1..Len(steps) : IsDefined(Held(k, n))

\* C36: in a chain of several steps, an update that lands in step i, not
\* passive, writes numbers only, never undefined or NaN, and if the step has
\* a length each value written is the linear interpolation between the value
\* the step before ends on and the value step i ends on.
C36_InterpolatesBetweenStepEnds ==
    \A i \in 2..Len(steps) :
        (/\ out.op \in PositionOps /\ Committed(out)
         /\ InStep(i, position) /\ ~steps[i].passive)
          => \A n \in out.writes :
                 /\ target[n].k = "num"
                 /\ steps[i].d > 0 =>
                        target[n] = Lerp(Held(i - 1, n), Held(i, n),
                                         Rat(position - steps[i].t, steps[i].d))

\* how often tween x occurs in the walk from _tweenHead
Occurrences(K, x) == Cardinality({k \in 1..Len(List(K)) : List(K)[k] = x})

\* Tween.hasActiveTweens() without a target
hasActiveTweens(K) == K._tweenHead # 0

\* Tween.hasActiveTweens(target) for the target of tween x
hasActiveTweensOn(K, x) == K.tw[x].tweenjs_count # 0

\* C32: outside of a tick a paused tween is not in the tick list and every
\* unpaused tween is in it exactly once, so hasActiveTweens() is true
\* exactly when some tween is unpaused, and hasActiveTweens(target) exactly
\* when the tween of that target is unpaused (each tween here has a target of
\* its own).
C32_RegistryMatchesPaused ==
    ticker._inTick = 0 =>
        /\ \A x \in Tweens :
               /\ ticker.tw[x]._paused => ~Listed(ticker, x)
               /\ ~ticker.tw[x]._paused => Occurrences(ticker, x) = 1
        /\ hasActiveTweens(ticker) <=> \E x \in Tweens : ~ticker.tw[x]._paused
        /\ \A x \in Tweens : hasActiveTweensOn(ticker, x) <=> ~ticker.tw[x]._paused

\* tween x has been added to the timeline
Adopted(x) == ticker.tw[x]._parent # 0

\* C31: a tween added to the timeline is paused and out of the ticking:
\* from addTween on it is paused; once no tick is in progress it is not in
\* the tick list; and no tick advances a tween it finds paused.
C31_AddedTweenLeavesTicking ==
    /\ \A x \in Tweens :
           Adopted(x) => /\ ticker.tw[x]._paused
                         /\ ticker._inTick = 0 => ~Listed(ticker, x)
    /\ \A k \in 1..Len(ticker.visits) : ticker.visits[k].paused => ticker.visits[k].by = 0

\* C40: a tween with a finite loop count that is unpaused, at whatever
\* position, is eventually paused and out of the tick list, as long as
\* ticks with a positive delta keep arriving without a global pause.
C40_EventuallyPausedAndRemoved == ~_paused ~> (_paused /\ registry = << >>)
====
